---- MODULE Spec2Model ----
(***************************************************************************)
(* Model of AtomFitter (src/generate.py): the atom detector detect_atoms,  *)
(* the lazily built kernel, and the beam search of AtomFitter.fit.         *)
(*                                                                         *)
(* Numbers.  Density values, thresholds and losses are floats in the       *)
(* source; here they are integers (a value after convolution is a          *)
(* fraction <<num, den>> with den > 0).  Lengths are integers in units of  *)
(* half a voxel edge, so that origin = center - resolution*(D-1)/2 is an   *)
(* integer whenever the resolution is even.                                *)
(***************************************************************************)
EXTENDS Integers, Sequences, FiniteSets, TLC

VARIABLES
    \* ---- AtomFitter fields (set by __init__, src/generate.py:116-153)
    beam_size, multi_atom, n_atoms_detect, apply_conv, threshold, peak_value,
    min_dist, constrain_types, fit_L1_loss, interm_gd_iters, final_gd_iters,
    kernel,
    \* ---- the arguments of the running call
    channels, types,
    \* ---- locals of AtomFitter.fit
    pc, grid_true, best_structs, new_best_structs, found_new_best_struct,
    expanded_ids,
    visited_structs, struct_count, cur, nxt, do_single_atom, xyz_new, c_new,
    clock, ret,
    \* ---- the last detect_atoms call: its arguments and what it returned
    det_in, det_out,
    \* ---- the atoms a grid handed to detect_atoms was rendered from
    struct_true,
    \* ---- the convolve and get_types_estimate calls made on the fitter
    kcalls,
    \* ---- a get_min_rmsd call made by compute_struct_metrics: the arguments,
    \* what the call did, and the RMSD metric recorded
    rmsd_in, rmsd_out, m_RMSD,
    \* ---- generate_from_model in parallel mode: the options, the two queues,
    \* the main thread, the pool of fit workers and the output thread
    n_fit_workers, verbose, fit_queue, out_queue, main_pc, n_produced,
    pool_state, wpc, wtask, fit_log, out_pc, written,
    \* ---- one call of fit_gd: its arguments, its loop and its result
    gd,
    \* ---- one call of remove_tensors: the objects before and after
    rt

cfgvars == <<beam_size, multi_atom, n_atoms_detect, apply_conv, threshold,
             peak_value, min_dist, constrain_types, fit_L1_loss,
             interm_gd_iters, final_gd_iters>>
fitvars == <<pc, grid_true, best_structs, new_best_structs, found_new_best_struct,
             expanded_ids, visited_structs, struct_count, cur, nxt,
             do_single_atom, xyz_new, c_new, clock, ret>>
detvars == <<det_in, det_out>>
rmsdvars == <<rmsd_in, rmsd_out, m_RMSD>>
qvars == <<n_fit_workers, verbose, fit_queue, out_queue, main_pc, n_produced,
           pool_state, wpc, wtask, fit_log, out_pc, written>>
auxvars == <<struct_true, kcalls, rmsdvars, qvars, gd, rt>>
vars == <<cfgvars, kernel, channels, types, fitvars, detvars, auxvars>>

-----------------------------------------------------------------------------
(* Bounds of the model *)

\* largest density value of a voxel (values range over 0..MaxVal)
MaxVal == 1
\* largest beam size tried
MaxBeam == 2
\* largest n_atoms_detect tried (the smallest is -1, "no limit")
MaxDetect == 2
\* largest target count of one atom type
MaxTypeCount == 1
\* the visited log is explored up to this many entries
MaxVisited == 6
\* stand-in for the size cap on line 563 (50 atoms in the source)
SizeCap == 2
\* stand-in for the candidate count on line 305 (1000 in the source) from
\* which non-max suppression uses the sequential loop
NxNLimit == 3

\* a field that was not set yet
None == "None"
\* np.inf: a peak_value of Inf and a threshold of -Inf (or None) are off
Inf == 1000000
\* self.kernel before the first use
NoKernel == [nch |-> 0, dim |-> 0, channels |-> <<>>, resolution |-> 0,
             values |-> <<>>]

-----------------------------------------------------------------------------
(* Plain helpers *)

Min(a, b) == IF a < b THEN a ELSE b
Max(a, b) == IF a > b THEN a ELSE b
Abs(a) == IF a < 0 THEN -a ELSE a

RECURSIVE SumSeq(_)
SumSeq(s) == IF s = <<>> THEN 0 ELSE Head(s) + SumSeq(Tail(s))

\* python's seq[:n]
Take(s, n) ==
    IF n >= 0 THEN SubSeq(s, 1, Min(n, Len(s)))
    ELSE SubSeq(s, 1, Max(0, Len(s) + n))

\* the elements of s whose positions satisfy keep, in order (boolean mask)
RECURSIVE MaskFrom(_, _, _)
MaskFrom(s, keep, k) ==
    IF k > Len(s) THEN <<>>
    ELSE (IF keep[k] THEN <<s[k]>> ELSE <<>>) \o MaskFrom(s, keep, k + 1)
Mask(s, keep) == MaskFrom(s, keep, 1)

\* fractions num/den with den > 0
FracGt(a, b) == a[1] * b[2] > b[1] * a[2]
FracEq(a, b) == a[1] * b[2] = b[1] * a[2]

-----------------------------------------------------------------------------
(* Density grids.  A grid is [nch, dim, values]: values is the flattened   *)
(* 4D array [channel, x, y, z], index ((c*dim + x)*dim + y)*dim + z.       *)

Flat(c, x, y, z, dim) == ((c * dim + x) * dim + y) * dim + z
GridSize(nch, dim) == nch * dim * dim * dim

\* density of one atom of radius r at squared distance d2 from its centre,
\* as rendered by molgrid's Coords2Grid: positive inside 1.5 radii and
\* falling with the distance, zero outside
AtomDensity(d2, r) == IF 4 * d2 < 9 * r * r THEN 9 * r * r - 4 * d2 ELSE 0

MaxRadius(chs) == CHOOSE r \in {chs[k] : k \in DOMAIN chs} :
                      \A k \in DOMAIN chs : chs[k] <= r

\* molgrid's spatial_grid_dimensions for a dimension d: round(d/res) + 1
SpatialDim(d, res) == ((2 * d + res) \div (2 * res)) + 1

\* the density of kernel voxel f: the atom of channel c sits at the centre
KernelValue(f, chs, res, dm) ==
    LET p == dm \div 2
        z == f % dm
        y == (f \div dm) % dm
        x == (f \div (dm * dm)) % dm
        c == (f \div (dm * dm * dm)) % Len(chs)
    IN  AtomDensity(res * res * ((x - p) * (x - p) + (y - p) * (y - p)
                                 + (z - p) * (z - p)), chs[c + 1])

\* lines 173-181: the extent fits 1.5 times the largest radius and is odd
KernelDim(chs, res) ==
    IF SpatialDim(3 * MaxRadius(chs), res) % 2 = 0
    THEN SpatialDim(3 * MaxRadius(chs) + res, res)
    ELSE SpatialDim(3 * MaxRadius(chs), res)

\* AtomFitter.init_kernel: one atom of each channel at the centre of a grid
\* of half-width 1.5 * largest radius and odd extent
MkKernel(chs, res, dm) ==
    [nch |-> Len(chs), dim |-> dm, channels |-> chs, resolution |-> res,
     values |-> [f \in 0 .. (GridSize(Len(chs), dm) - 1) |->
                    KernelValue(f, chs, res, dm)]]
init_kernel(chs, res) == MkKernel(chs, res, KernelDim(chs, res))

\* the kernel convolve works with: built on first use, then kept
KernelUsed(k, chs, res) == IF k = NoKernel THEN init_kernel(chs, res) ELSE k

\* (kernel.values**2).sum(dim=(1,2,3)) of channel c: voxels f .. kvol-1
RECURSIVE SumSquares(_, _, _, _)
SumSquares(k, c, f, kvol) ==
    IF f >= kvol THEN 0
    ELSE k.values[c * kvol + f] * k.values[c * kvol + f]
         + SumSquares(k, c, f + 1, kvol)
KernelNorm2(k, c) == SumSquares(k, c, 0, k.dim * k.dim * k.dim)

\* the term of input voxel (gx,gy,gz) in conv3d's output voxel (x,y,z) of
\* channel c, with zero padding dim//2
Tap(grid, k, c, x, y, z, gx, gy, gz) ==
    IF /\ gx - x + k.dim \div 2 \in 0 .. k.dim - 1
       /\ gy - y + k.dim \div 2 \in 0 .. k.dim - 1
       /\ gz - z + k.dim \div 2 \in 0 .. k.dim - 1
    THEN grid.values[Flat(c, gx, gy, gz, grid.dim)]
         * k.values[Flat(c, gx - x + k.dim \div 2, gy - y + k.dim \div 2,
                         gz - z + k.dim \div 2, k.dim)]
    ELSE 0

RECURSIVE ConvSum(_, _, _, _, _, _, _)
ConvSum(grid, k, c, x, y, z, g) ==
    IF g >= grid.dim * grid.dim * grid.dim THEN 0
    ELSE Tap(grid, k, c, x, y, z, (g \div (grid.dim * grid.dim)) % grid.dim,
             (g \div grid.dim) % grid.dim, g % grid.dim)
         + ConvSum(grid, k, c, x, y, z, g + 1)

\* conv3d(...)[0] / kernel_norm2, with kernel_norm2[c] the squared norm of
\* kernel channel c
ConvNormed(grid, k, kernel_norm2) ==
    [f \in DOMAIN grid.values |->
        <<ConvSum(grid, k, (f \div (grid.dim * grid.dim * grid.dim)) % grid.nch,
                  (f \div (grid.dim * grid.dim)) % grid.dim,
                  (f \div grid.dim) % grid.dim, f % grid.dim, 0),
          kernel_norm2[(f \div (grid.dim * grid.dim * grid.dim)) % grid.nch]>>]
ConvWith(grid, k) ==
    ConvNormed(grid, k, [c \in 0 .. grid.nch - 1 |-> KernelNorm2(k, c)])

\* AtomFitter.convolve: per-channel conv3d with zero padding dim//2, divided
\* by the squared norm of the kernel channel.  Yields fractions.
convolve(grid, chs, res) == ConvWith(grid, KernelUsed(kernel, chs, res))

\* values.sum(dim=(1,2,3)) of channel c of a grid or kernel: voxels f .. vol-1
RECURSIVE ChannelSum(_, _, _, _)
ChannelSum(g, c, f, vol) ==
    IF f >= vol THEN 0
    ELSE g.values[c * vol + f] + ChannelSum(g, c, f + 1, vol)
\* grid_sum / kernel_sum of every channel, as fractions
TypesEstimateWith(grid, k) ==
    [c \in 1 .. grid.nch |->
        <<ChannelSum(grid, c - 1, 0, grid.dim * grid.dim * grid.dim),
          ChannelSum(k, c - 1, 0, k.dim * k.dim * k.dim)>>]
\* AtomFitter.get_types_estimate
get_types_estimate(grid, chs, res) ==
    TypesEstimateWith(grid, KernelUsed(kernel, chs, res))

-----------------------------------------------------------------------------
(* AtomFitter.detect_atoms, src/generate.py:232-346 *)

\* a comes before b when sorting by falling value; torch.sort is not
\* stable: ties stand in rising or in falling index order (tie_up)
Before(vals, a, b, tie_up) ==
    \/ FracGt(vals[a], vals[b])
    \/ FracEq(vals[a], vals[b]) /\ (IF tie_up THEN a < b ELSE a > b)

RECURSIVE InsertIdx(_, _, _, _)
InsertIdx(vals, a, sorted, tie_up) ==
    IF sorted = <<>> THEN <<a>>
    ELSE IF Before(vals, a, Head(sorted), tie_up) THEN <<a>> \o sorted
    ELSE <<Head(sorted)>> \o InsertIdx(vals, a, Tail(sorted), tie_up)

\* the flat indices f .. n-1 in sorted order
RECURSIVE SortFrom(_, _, _, _)
SortFrom(vals, f, n, tie_up) ==
    IF f >= n THEN <<>>
    ELSE InsertIdx(vals, f, SortFrom(vals, f + 1, n, tie_up), tie_up)

\* torch.sort(grid.flatten(), descending=True): the flat indices in order of
\* falling value
SortDescending(vals, tie_up) ==
    SortFrom(vals, 0, Cardinality(DOMAIN vals), tie_up)

\* F.one_hot(c, n): the row with a single one in column c (counted from 0)
one_hot(c, n) == [k \in 1 .. n |-> IF k = c + 1 THEN 1 ELSE 0]

Dist2(p, q) == (p[1] - q[1]) * (p[1] - q[1]) + (p[2] - q[2]) * (p[2] - q[2])
               + (p[3] - q[3]) * (p[3] - q[3])

\* (dist2 < min_dist2) & same_type for two ranked candidates a, b
TooCloseTo(a, b, chs) ==
    LET bond_radius == chs[a.c + 1] + chs[b.c + 1]
    IN  /\ a.c = b.c
        /\ Dist2(a.xyz, b.xyz) < (min_dist * bond_radius) * (min_dist * bond_radius)

\* lines 305-320: a candidate goes when ANY higher-ranked candidate of its
\* type is too close
SuppressMatrix(cands, chs) ==
    Mask(cands, [i \in DOMAIN cands |->
                    ~ \E j \in 1 .. i - 1 : TooCloseTo(cands[i], cands[j], chs)])

\* lines 322-336: a candidate goes when a higher-ranked candidate that was
\* KEPT is too close
RECURSIVE SuppressLoopFrom(_, _, _, _)
SuppressLoopFrom(cands, chs, i, kept) ==
    IF i > Len(cands) THEN kept
    ELSE SuppressLoopFrom(cands, chs, i + 1,
            IF \E j \in DOMAIN kept : TooCloseTo(cands[i], kept[j], chs)
            THEN kept ELSE Append(kept, cands[i]))
SuppressLoop(cands, chs) == SuppressLoopFrom(cands, chs, 2, <<cands[1]>>)

\* lines 254-256: the grid values detection works on, as fractions
Convolved(grid, chs, res) ==
    IF apply_conv THEN convolve(grid, chs, res)
    ELSE [f \in DOMAIN grid.values |-> <<grid.values[f], 1>>]

\* lines 258-261: peak_value - (peak_value - grid).abs()
FoldValue(v) == <<peak_value * v[2] - Abs(peak_value * v[2] - v[1]), v[2]>>
FoldPeak(g) ==
    IF peak_value < Inf THEN [f \in DOMAIN g |-> FoldValue(g[f])] ELSE g

\* faulty variant: the origin is half a voxel off (extent instead of
\* extent - 1)
EntryOriginOff(v, f, nch, D, center, res) ==
    LET idx_z == f % D
        idx_y == (f \div D) % D
        idx_x == (f \div (D * D)) % D
        idx_c == (f \div (D * D * D)) % nch
        origin == (res * D) \div 2
    IN  [v |-> v, c |-> idx_c,
         xyz |-> <<center[1] - origin + res * idx_x,
                   center[2] - origin + res * idx_y,
                   center[3] - origin + res * idx_z>>]

\* lines 266-271 and 294-296: channel and coordinates of flat index f
Entry(v, f, nch, D, center, res) ==
    LET idx_z == f % D
        idx_y == (f \div D) % D
        idx_x == (f \div (D * D)) % D
        idx_c == (f \div (D * D * D)) % nch
        origin == (res * (D - 1)) \div 2
    IN  [v |-> v, c |-> idx_c,
         xyz |-> <<center[1] - origin + res * idx_x,
                   center[2] - origin + res * idx_y,
                   center[3] - origin + res * idx_z>>]

\* lines 263-271: all (channel, voxel) pairs by falling value
SortedEntries(g, order, nch, D, center, res) ==
    [k \in DOMAIN order |-> Entry(g[order[k]], order[k], nch, D, center, res)]

\* faulty variant: values >= threshold
AboveThresholdOrEqual(es) ==
    IF threshold > -Inf
    THEN Mask(es, [k \in DOMAIN es |-> es[k].v[1] >= threshold * es[k].v[2]])
    ELSE es

\* lines 273-278: values > threshold
AboveThreshold(es) ==
    IF threshold > -Inf
    THEN Mask(es, [k \in DOMAIN es |-> es[k].v[1] > threshold * es[k].v[2]])
    ELSE es

\* faulty variant: no channel is excluded
HasAtomsLeftAlways(es, tys) == es

\* faulty variant: types[idx_c] >= 0
HasAtomsLeftOrNone(es, tys) ==
    IF constrain_types
    THEN Mask(es, [k \in DOMAIN es |-> tys[es[k].c + 1] >= 0])
    ELSE es

\* lines 280-285: types[idx_c] > 0
HasAtomsLeft(es, tys) ==
    IF constrain_types
    THEN Mask(es, [k \in DOMAIN es |-> tys[es[k].c + 1] > 0])
    ELSE es

\* the ranked candidates (lines 244-296), each [v, c, xyz]
Ranked(g, grid, center, res, tys, tie_up) ==
    HasAtomsLeft(
        AboveThreshold(
            SortedEntries(g, SortDescending(g, tie_up), grid.nch, grid.dim,
                          center, res)),
        tys)
RankedCandidates(grid, chs, center, res, tys, tie_up) ==
    Ranked(FoldPeak(Convolved(grid, chs, res)), grid, center, res, tys, tie_up)

\* lines 298-336
SuppressNonMax(cands, chs) ==
    IF min_dist > 0 /\ n_atoms_detect > 1
    THEN (IF Len(cands) < NxNLimit THEN SuppressMatrix(cands, chs)
          ELSE SuppressLoop(cands, chs))
    ELSE cands

\* faulty variant: the slice is taken for a negative n_atoms_detect too
\* (python's xyz[:-1] leaves out the last entry)
LimitSliced(cands) ==
    IF n_atoms_detect >= 0 THEN Take(cands, n_atoms_detect)
    ELSE Take(cands, Max(Len(cands) + n_atoms_detect, 0))

\* lines 338-341
Limit(cands) ==
    IF n_atoms_detect >= 0 THEN Take(cands, n_atoms_detect) ELSE cands

\* lines 343-346
Detected(cut, nch) ==
    [xyz |-> [k \in DOMAIN cut |-> cut[k].xyz],
     c   |-> [k \in DOMAIN cut |-> one_hot(cut[k].c, nch)]]

detect_atoms(grid, chs, center, res, tys, tie_up) ==
    Detected(
        Limit(SuppressNonMax(
            RankedCandidates(grid, chs, center, res, tys, tie_up), chs)),
        grid.nch)

-----------------------------------------------------------------------------
(* AtomFitter.fit, src/generate.py:361-630 *)

\* the displacement one run of the optimizer gives an atom
GdSteps == {<<1, 0, 0>>}

MkGrid(nch, dim, vals) == [nch |-> nch, dim |-> dim, values |-> vals]

\* the target grids and the residual grids (target minus rendered density)
\* of a call to fit: one voxel per channel
TargetGrids(nch) ==
    {MkGrid(nch, 1, v) : v \in [0 .. GridSize(nch, 1) - 1 -> 0 .. 1]}
ResidualGrids(nch) ==
    {MkGrid(nch, 1, v) : v \in [0 .. GridSize(nch, 1) - 1 -> 0 .. 1]}

\* (grid**2).sum() / 2 and grid.abs().sum(), both in units of 1/2
RECURSIVE SumOver(_, _, _)
SumOver(vals, f, sq) ==
    IF f \notin DOMAIN vals THEN 0
    ELSE (IF sq THEN vals[f] * vals[f] ELSE 2 * Abs(vals[f]))
         + SumOver(vals, f + 1, sq)
L2Loss(grid) == SumOver(grid.values, 0, TRUE)
L1Loss(grid) == SumOver(grid.values, 0, FALSE)
FitLoss(grid) == IF fit_L1_loss THEN L1Loss(grid) ELSE L2Loss(grid)

\* c.sum(dim=0) for a sequence c of one-hot rows with n columns
ColSum(c, n) == [k \in 1 .. n |-> SumSeq([i \in DOMAIN c |-> c[i][k]])]
\* types - c.sum(dim=0)
TypeDiff(tys, c) == [k \in DOMAIN tys |-> tys[k] - ColSum(c, Len(tys))[k]]
\* v.abs().sum()
AbsSum(v) == SumSeq([k \in DOMAIN v |-> Abs(v[k])])

\* lines 403-407: with the type constraint the objective is the pair
\* (type_loss, fit_loss), else the fit loss alone
Objective(type_loss, fit_loss) ==
    IF constrain_types THEN <<type_loss, fit_loss>> ELSE <<fit_loss>>

\* faulty variant: only the first components are compared
ObjLessFirst(a, b) == a[1] < b[1]

\* python's a < b on floats and on tuples of floats
ObjLess(a, b) ==
    \E k \in 1 .. Min(Len(a), Len(b)) :
        /\ a[k] < b[k]
        /\ \A m \in 1 .. k - 1 : a[m] = b[m]

\* faulty variant: compares with the best pool member only
IsNewBestThanFirst(objective_new, pool) ==
    ObjLess(objective_new, pool[1].objective)

\* faulty variant: an objective equal to a pool member's is accepted too
IsNewBestOrEqual(objective_new, pool) ==
    \E k \in DOMAIN pool : ~ ObjLess(pool[k].objective, objective_new)

\* line 463 / 515: any(objective_new < s[0] for s in best_structs)
IsNewBest(objective_new, pool) ==
    \E k \in DOMAIN pool : ObjLess(objective_new, pool[k].objective)

\* python's < on the pool tuples (objective, struct_id, ...): struct ids
\* are unique, so the comparison never reaches the tensors
TupleLess(s, t) ==
    \/ ObjLess(s.objective, t.objective)
    \/ s.objective = t.objective /\ s.struct_id < t.struct_id

\* sorted(seq) by insertion
RECURSIVE Insert(_, _)
Insert(s, sorted) ==
    IF sorted = <<>> THEN <<s>>
    ELSE IF TupleLess(s, Head(sorted)) THEN <<s>> \o sorted
    ELSE <<Head(sorted)>> \o Insert(s, Tail(sorted))
RECURSIVE Sorted(_)
Sorted(seq) == IF seq = <<>> THEN <<>> ELSE Insert(Head(seq), Sorted(Tail(seq)))

\* faulty variant: the pool is not cut to the beam size
MergePoolUncut(pool, new) == Sorted(pool \o new)
\* faulty variant: the merged pool is cut without being sorted
MergePoolUnsorted(pool, new) == Take(pool \o new, beam_size)

\* line 547
MergePool(pool, new) == Take(Sorted(pool \o new), beam_size)

\* faulty variant: the cap never stops the search
CapNever(last_xyz) == FALSE

\* line 563: the size cap
CapReached(last_xyz) == Len(last_xyz) >= SizeCap

\* faulty variant: the log keeps its newest entries only
VisitedAppendBounded(log, e) == Append(Tail(log), e)

\* lines 488-490, 539-541, 585-587: visited_structs.append(...)
VisitedAppend(log, e) == Append(log, e)

\* faulty variant: a structure without atoms gets a residual of its own
fit_gd_empty_differs(grid, xyz, c, n_iters) ==
    {[xyz |-> xyz, grid_diff |-> g, loss |-> FitLoss(g)] :
        g \in ResidualGrids(grid.nch)}

\* fit_gd, lines 632-670: the coordinates after n_iters optimizer steps,
\* the residual grid and the loss of the residual.  The channel rows c are
\* not touched.  Nothing is rendered for a structure without atoms.
fit_gd(grid, xyz, c, n_iters) ==
    LET moved == IF n_iters = 0 \/ xyz = <<>> THEN {xyz}
                 ELSE {[k \in DOMAIN xyz |->
                           <<xyz[k][1] + d[k][1], xyz[k][2] + d[k][2],
                             xyz[k][3] + d[k][3]>>] :
                        d \in [DOMAIN xyz -> GdSteps]}
        diffs == IF xyz = <<>> THEN {grid} ELSE ResidualGrids(grid.nch)
    IN  {[xyz |-> m, grid_diff |-> g, loss |-> FitLoss(g)] :
            m \in moved, g \in diffs}

\* faulty variant: counts the columns from 1
one_hot_to_index_from1(c) ==
    [i \in DOMAIN c |-> CHOOSE k \in DOMAIN c[i] : c[i][k] = 1]

\* one_hot_to_index, lines 1606-1610: argmax of every row
one_hot_to_index(c) ==
    [i \in DOMAIN c |->
        (CHOOSE k \in DOMAIN c[i] :
            /\ \A m \in DOMAIN c[i] : c[i][m] <= c[i][k]
            /\ \A m \in 1 .. k - 1 : c[i][m] < c[i][k]) - 1]

\* a pool tuple and a visited tuple
PoolTuple(objective, id, xyz, c, next) ==
    [objective |-> objective, struct_id |-> id, xyz |-> xyz, c |-> c,
     xyz_next |-> next.xyz, c_next |-> next.c]
VisitedTuple(objective, id, t, xyz, c) ==
    [objective |-> objective, struct_id |-> id, time |-> t, xyz |-> xyz, c |-> c]

-----------------------------------------------------------------------------
(* The fitter after __init__, and one call of fit on it *)

\* channel sets: the atomic radius of every channel
ChannelSets == {<<1, 2>>}

\* no detect_atoms call yet: an empty grid
NoCall == [grid |-> [nch |-> 0, dim |-> 0, values |-> <<>>], types |-> <<>>,
           center |-> <<0, 0, 0>>, resolution |-> 0, tie_up |-> TRUE]
\* the arguments of a detect_atoms call
Call(grid, tys, center, res, tie_up) ==
    [grid |-> grid, types |-> tys, center |-> center, resolution |-> res,
     tie_up |-> tie_up]

\* no atoms: the grid of the call was not rendered from a structure
NoStruct == [xyz |-> <<>>, c |-> <<>>]
\* the parts of the state a run of fit or detect_atoms does not use
IdleStruct == struct_true = NoStruct
IdleKernelCalls == kcalls = <<>>
\* no get_min_rmsd call
NoRmsdCall == [xyz1 |-> <<>>, c1 |-> <<>>, xyz2 |-> <<>>, c2 |-> <<>>]
NoRmsd == [status |-> "none", ssd |-> 0, n_atoms |-> 0]
\* the RMSD column of the metrics table before it is written
NoMetric == [kind |-> "unset", ssd |-> 0, n_atoms |-> 0]
IdleRmsd == rmsd_in = NoRmsdCall /\ rmsd_out = NoRmsd /\ m_RMSD = NoMetric
\* generate_from_model is not running
IdleQueues ==
    /\ n_fit_workers = 0
    /\ verbose = FALSE
    /\ fit_queue = <<>>
    /\ out_queue = <<>>
    /\ main_pc = "idle"
    /\ n_produced = 0
    /\ pool_state = "none"
    /\ wpc = <<>>
    /\ wtask = <<>>
    /\ fit_log = <<>>
    /\ out_pc = "idle"
    /\ written = <<>>
\* no call of fit_gd and none of remove_tensors is under way
NoGd == [pc |-> "none"]
NoRt == [pc |-> "none"]

IdleAux ==
    /\ IdleStruct
    /\ IdleKernelCalls
    /\ IdleRmsd
    /\ IdleQueues
    /\ gd = NoGd
    /\ rt = NoRt

InitFitLocals ==
    /\ pc = "idle"
    /\ grid_true = None
    /\ best_structs = <<>>
    /\ new_best_structs = <<>>
    /\ found_new_best_struct = FALSE
    /\ expanded_ids = {}
    /\ visited_structs = <<>>
    /\ struct_count = 0
    /\ cur = 0
    /\ nxt = 0
    /\ do_single_atom = FALSE
    /\ xyz_new = <<>>
    /\ c_new = <<>>
    /\ clock = 0
    /\ ret = None
    /\ det_in = NoCall
    /\ det_out = [xyz |-> <<>>, c |-> <<>>]

Init ==
    /\ beam_size \in 1 .. MaxBeam
    /\ multi_atom \in BOOLEAN
    /\ n_atoms_detect \in {1, MaxDetect}
    /\ apply_conv = FALSE
    /\ threshold = 0
    /\ peak_value = Inf
    /\ min_dist = 0
    /\ constrain_types \in BOOLEAN
    /\ fit_L1_loss = FALSE
    /\ interm_gd_iters = 1
    /\ final_gd_iters = 1
    /\ kernel = NoKernel
    /\ channels \in ChannelSets
    /\ types \in {<<MaxTypeCount, MaxTypeCount>>, <<0, MaxTypeCount>>}
    /\ IdleAux
    /\ InitFitLocals

\* the kernel after a detect_atoms call: convolve builds it on first use
KernelAfterDetect ==
    IF apply_conv THEN KernelUsed(kernel, channels, 2) ELSE kernel

\* the detect_atoms call of fit: the grid is centred at the origin and its
\* resolution is 2 (one voxel edge)
Detect(grid, tys, tie_up) ==
    detect_atoms(grid, channels, <<0, 0, 0>>, 2, tys, tie_up)

\* lines 361-427
fit_begin ==
    /\ pc = "idle"
    /\ \E grid \in TargetGrids(Len(channels)), tie_up \in BOOLEAN :
          LET fit_loss == FitLoss(grid)
              type_loss == AbsSum(types)
              objective == Objective(type_loss, fit_loss)
              next == Detect(grid, types, tie_up)
          IN  /\ grid_true' = grid
              /\ best_structs' = <<PoolTuple(objective, 0, <<>>, <<>>, next)>>
              /\ visited_structs' = <<VisitedTuple(objective, 0, clock, <<>>, <<>>)>>
              /\ det_in' = Call(grid, types, <<0, 0, 0>>, 2, tie_up)
              /\ det_out' = next
    /\ found_new_best_struct' = TRUE
    /\ expanded_ids' = {}
    /\ struct_count' = 1
    /\ clock' = clock + 1
    /\ kernel' = KernelAfterDetect
    /\ pc' = "while"
    /\ UNCHANGED <<auxvars, cfgvars, channels, types, new_best_structs, cur, nxt,
                   do_single_atom, xyz_new, c_new, ret>>

\* line 430, condition true: lines 432-433
while_enter ==
    /\ pc = "while"
    /\ found_new_best_struct
    /\ new_best_structs' = <<>>
    /\ found_new_best_struct' = FALSE
    /\ cur' = 1
    /\ pc' = "for"
    /\ UNCHANGED <<auxvars, cfgvars, kernel, channels, types, grid_true, best_structs,
                   expanded_ids, visited_structs, struct_count, nxt,
                   do_single_atom, xyz_new, c_new, clock, ret, detvars>>

\* lines 436-439: a pool member that was expanded before is passed over
for_skip ==
    /\ pc = "for"
    /\ cur <= Len(best_structs)
    /\ best_structs[cur].struct_id \in expanded_ids
    /\ cur' = cur + 1
    /\ UNCHANGED <<auxvars, cfgvars, kernel, channels, types, pc, grid_true, best_structs,
                   new_best_structs, found_new_best_struct, expanded_ids,
                   visited_structs, struct_count, nxt, do_single_atom, xyz_new,
                   c_new, clock, ret, detvars>>

\* faulty variant: a pool member is expanded whether or not it was before
for_enter_again ==
    /\ pc = "for"
    /\ cur <= Len(best_structs)
    /\ do_single_atom' = TRUE
    /\ nxt' = 1
    /\ pc' = IF multi_atom THEN "joint" ELSE "single"
    /\ UNCHANGED <<auxvars, cfgvars, kernel, channels, types, grid_true, best_structs,
                   new_best_structs, found_new_best_struct, expanded_ids,
                   visited_structs, struct_count, cur, xyz_new, c_new, clock,
                   ret, detvars>>

\* lines 436-444: the next pool member to expand
for_enter ==
    /\ pc = "for"
    /\ cur <= Len(best_structs)
    /\ best_structs[cur].struct_id \notin expanded_ids
    /\ do_single_atom' = TRUE
    /\ nxt' = 1
    /\ pc' = IF multi_atom THEN "joint" ELSE "single"
    /\ UNCHANGED <<auxvars, cfgvars, kernel, channels, types, grid_true, best_structs,
                   new_best_structs, found_new_best_struct, expanded_ids,
                   visited_structs, struct_count, cur, xyz_new, c_new, clock,
                   ret, detvars>>

\* the body shared by lines 446-490 and 498-541: refine the structure
\* (xyz_cat, c_cat) expanded from pool member s, accept it or not, log it
Attempt(s, xyz_cat, c_cat, single) ==
    /\ Len(visited_structs) < MaxVisited
    /\ \E r \in fit_gd(grid_true, xyz_cat, c_cat, interm_gd_iters) :
          LET type_diff == TypeDiff(types, c_cat)
              type_loss == AbsSum(type_diff)
              objective_new == Objective(type_loss, r.loss)
          IN  /\ IF IsNewBest(objective_new, best_structs)
                 THEN \E tie_up \in BOOLEAN :
                      LET next == Detect(r.grid_diff, type_diff, tie_up)
                      IN  /\ new_best_structs' = Append(new_best_structs,
                                PoolTuple(objective_new, struct_count, r.xyz,
                                          c_cat, next))
                          /\ found_new_best_struct' = TRUE
                          /\ struct_count' = struct_count + 1
                          /\ do_single_atom' = (single /\ do_single_atom)
                          /\ det_in' = Call(r.grid_diff, type_diff, <<0, 0, 0>>,
                                         2, tie_up)
                          /\ det_out' = next
                          /\ kernel' = KernelAfterDetect
                 ELSE UNCHANGED <<new_best_structs, found_new_best_struct,
                                  struct_count, do_single_atom, detvars, kernel>>
              /\ visited_structs' = VisitedAppend(visited_structs,
                    VisitedTuple(objective_new, s.struct_id, clock, r.xyz, c_cat))
              /\ xyz_new' = r.xyz
              /\ c_new' = c_cat
    /\ clock' = clock + 1

\* faulty variant: an accepted joint expansion leaves do_single_atom set
joint_expand_keeps_single ==
    /\ pc = "joint"
    /\ LET s == best_structs[cur]
       IN  Attempt(s, s.xyz \o s.xyz_next, s.c \o s.c_next, TRUE)
    /\ pc' = "single"
    /\ UNCHANGED <<auxvars, cfgvars, channels, types, grid_true, best_structs,
                   expanded_ids, cur, nxt, ret>>

\* lines 444-490: all next atoms at once
joint_expand ==
    /\ pc = "joint"
    /\ LET s == best_structs[cur]
       IN  Attempt(s, s.xyz \o s.xyz_next, s.c \o s.c_next, FALSE)
    /\ pc' = "single"
    /\ UNCHANGED <<auxvars, cfgvars, channels, types, grid_true, best_structs,
                   expanded_ids, cur, nxt, ret>>

\* lines 492-541: one turn of the loop over the next atoms
single_expand ==
    /\ pc = "single"
    /\ do_single_atom
    /\ nxt <= Len(best_structs[cur].c_next)
    /\ LET s == best_structs[cur]
       IN  Attempt(s, Append(s.xyz, s.xyz_next[nxt]),
                   Append(s.c, s.c_next[nxt]), TRUE)
    /\ nxt' = nxt + 1
    /\ UNCHANGED <<auxvars, cfgvars, channels, types, pc, grid_true, best_structs,
                   expanded_ids, cur, ret>>

\* line 543, reached when the single-atom loop is over or was not run
mark_expanded ==
    /\ pc = "single"
    /\ ~ do_single_atom \/ nxt > Len(best_structs[cur].c_next)
    /\ expanded_ids' = expanded_ids \cup {best_structs[cur].struct_id}
    /\ cur' = cur + 1
    /\ pc' = "for"
    /\ UNCHANGED <<auxvars, cfgvars, kernel, channels, types, grid_true, best_structs,
                   new_best_structs, found_new_best_struct, visited_structs,
                   struct_count, nxt, do_single_atom, xyz_new, c_new, clock,
                   ret, detvars>>

\* lines 545-564, after the loop over the pool: merge, sort, cut, size cap
merge ==
    /\ pc = "for"
    /\ cur > Len(best_structs)
    /\ IF found_new_best_struct
       THEN /\ best_structs' = MergePool(best_structs, new_best_structs)
            /\ found_new_best_struct' = ~ CapReached(xyz_new)
       ELSE UNCHANGED <<best_structs, found_new_best_struct>>
    /\ pc' = "while"
    /\ UNCHANGED <<auxvars, cfgvars, kernel, channels, types, grid_true, new_best_structs,
                   expanded_ids, visited_structs, struct_count, cur, nxt,
                   do_single_atom, xyz_new, c_new, clock, ret, detvars>>

\* line 430, condition false, and lines 566-581 with the type constraint:
\* type_loss is a python float since line 568 (.item()), and
\* type_loss.item() on line 581 raises AttributeError after the final
\* fit_gd; nothing is logged or returned
fit_final_raise ==
    /\ pc = "while"
    /\ ~ found_new_best_struct
    /\ constrain_types
    /\ pc' = "AttributeError"
    /\ UNCHANGED <<auxvars, cfgvars, kernel, channels, types, grid_true, best_structs,
                   new_best_structs, found_new_best_struct, expanded_ids,
                   visited_structs, struct_count, cur, nxt, do_single_atom,
                   xyz_new, c_new, clock, ret, detvars>>

\* line 430, condition false, and lines 566-630 without the type
\* constraint: refine the best pool member, log it, turn the log into
\* AtomStructs, return
fit_final ==
    /\ pc = "while"
    /\ ~ found_new_best_struct
    /\ ~ constrain_types
    /\ \E r \in fit_gd(grid_true, best_structs[1].xyz, best_structs[1].c,
                       final_gd_iters) :
          LET best_id == best_structs[1].struct_id
              c_best == best_structs[1].c
              type_loss == AbsSum(TypeDiff(types, c_best))
              L2_loss == L2Loss(r.grid_diff)
              L1_loss == L1Loss(r.grid_diff)
              best_objective == Objective(type_loss, r.loss)
              log == VisitedAppend(visited_structs,
                        VisitedTuple(best_objective, best_id + 1, clock,
                                     r.xyz, c_best))
              AtomStruct(v) ==
                  [xyz |-> v.xyz, c |-> one_hot_to_index(v.c),
                   L2_loss |-> L2_loss, L1_loss |-> L1_loss,
                   type_diff |-> type_loss, est_type_diff |-> "nan",
                   time |-> v.time]
              visited == [k \in DOMAIN log |-> AtomStruct(log[k])]
              struct_best ==
                  [xyz |-> r.xyz, c |-> one_hot_to_index(c_best),
                   L2_loss |-> L2_loss, L1_loss |-> L1_loss,
                   type_diff |-> type_loss, est_type_diff |-> "nan",
                   time |-> clock + 1, visited_structs |-> visited]
          IN  /\ visited_structs' = log
              /\ ret' = [grid_diff |-> r.grid_diff, src_struct |-> struct_best]
    /\ clock' = clock + 2
    /\ pc' = "done"
    /\ UNCHANGED <<auxvars, cfgvars, kernel, channels, types, grid_true, best_structs,
                   new_best_structs, found_new_best_struct, expanded_ids,
                   struct_count, cur, nxt, do_single_atom, xyz_new, c_new,
                   detvars>>

\* ---- calls of detect_atoms on a fitter of any configuration

\* the spatial extents of the grids tried
GridDims == {1, 2}
\* the resolution of the grids tried (two length units are half a voxel)
DetectResolution == {4}
\* the voxels that may hold density: three voxels a, b, c of the last
\* channel with |ab|^2 = res^2, |bc|^2 = 2 res^2, |ac|^2 = 3 res^2 (in a
\* grid of extent 1 they fall together), and voxel a of the first channel
ProbeVoxels(nch, dim) ==
    LET m == dim - 1
    IN  {Flat(nch - 1, 0, 0, 0, dim), Flat(nch - 1, m, 0, 0, dim),
         Flat(nch - 1, m, m, m, dim), Flat(0, 0, 0, 0, dim)}
DetectGrids(nch) ==
    UNION {{MkGrid(nch, dim,
                   [f \in 0 .. GridSize(nch, dim) - 1 |->
                       IF f \in ProbeVoxels(nch, dim) THEN v[f] ELSE 0]) :
             v \in [ProbeVoxels(nch, dim) -> 0 .. MaxVal]} : dim \in GridDims}
\* the remaining type counts passed to a call
DetectTypes(nch) ==
    IF constrain_types
    THEN {[k \in 1 .. nch |-> 1], [k \in 1 .. nch |-> IF k = 1 THEN 0 ELSE 1],
          [k \in 1 .. nch |-> IF k = nch THEN -1 ELSE 1]}
    ELSE {[k \in 1 .. nch |-> 1]}

\* the fitter after __init__ and the arguments of the call to come
InitDetect ==
    /\ IdleAux
    /\ beam_size = 1
    /\ multi_atom = FALSE
    /\ n_atoms_detect \in {-1, 0, 1, MaxDetect}
    /\ apply_conv \in BOOLEAN
    /\ threshold \in {-Inf, 0, 1}
    /\ peak_value \in {Inf, 1}
    /\ min_dist \in {0, 1}
    /\ constrain_types \in BOOLEAN
    /\ fit_L1_loss = FALSE
    /\ interm_gd_iters = 1
    /\ final_gd_iters = 1
    /\ kernel = NoKernel
    /\ channels \in {<<3>>, <<1, 3>>}
    /\ types = [k \in DOMAIN channels |-> 1]
    /\ pc = "idle"
    /\ grid_true = None
    /\ best_structs = <<>>
    /\ new_best_structs = <<>>
    /\ found_new_best_struct = FALSE
    /\ expanded_ids = {}
    /\ visited_structs = <<>>
    /\ struct_count = 0
    /\ cur = 0
    /\ nxt = 0
    /\ do_single_atom = FALSE
    /\ xyz_new = <<>>
    /\ c_new = <<>>
    /\ clock = 0
    /\ ret = None
    /\ det_in \in {Call(grid, tys, <<0, 0, 0>>, res, tie_up) :
                      grid \in DetectGrids(Len(channels)),
                      tys \in DetectTypes(Len(channels)),
                      res \in DetectResolution, tie_up \in BOOLEAN}
    /\ det_out = [xyz |-> <<>>, c |-> <<>>]

\* the call detect_atoms(grid, channels, center, resolution, types)
detect_call ==
    /\ pc = "idle"
    /\ det_out' = detect_atoms(det_in.grid, channels, det_in.center,
                               det_in.resolution, det_in.types, det_in.tie_up)
    /\ kernel' = IF apply_conv
                 THEN KernelUsed(kernel, channels, det_in.resolution)
                 ELSE kernel
    /\ pc' = "returned"
    /\ UNCHANGED <<auxvars, cfgvars, channels, types, grid_true, best_structs,
                   new_best_structs, found_new_best_struct, expanded_ids,
                   visited_structs, struct_count, cur, nxt, do_single_atom,
                   xyz_new, c_new, clock, ret, det_in>>

NextDetect == detect_call

SpecDetect == InitDetect /\ [][NextDetect]_vars

\* ---- detect_atoms on the density of a single atom

\* the position of voxel f of a grid rendered around center, and its channel
VoxelXyz(f, dim, center, res) ==
    <<center[1] - (res * (dim - 1)) \div 2 + res * ((f \div (dim * dim)) % dim),
      center[2] - (res * (dim - 1)) \div 2 + res * ((f \div dim) % dim),
      center[3] - (res * (dim - 1)) \div 2 + res * (f % dim)>>
VoxelChannel(f, nch, dim) == (f \div (dim * dim * dim)) % nch
\* self.c2grid(xyz, c, r): the density of the atoms xyz with channels c
\* (indices from 0) on a grid of extent dim around center
c2grid(xyz, c, chs, center, res, dim) ==
    MkGrid(Len(chs), dim,
           [f \in 0 .. GridSize(Len(chs), dim) - 1 |->
               SumSeq([k \in DOMAIN xyz |->
                   IF c[k] = VoxelChannel(f, Len(chs), dim)
                   THEN AtomDensity(Dist2(VoxelXyz(f, dim, center, res), xyz[k]),
                                    chs[c[k] + 1])
                   ELSE 0])])
\* the density at the centre of an atom of radius r
PeakDensity(r) == AtomDensity(0, r)
\* the grid centres tried
Centers == {<<0, 0, 0>>, <<2, 0, -4>>}
\* the coordinates along one axis an atom may have: on a voxel or midway
\* between two, nowhere outside the outermost voxels
AxisCoords(c0, res, dim) ==
    {c0 - (res * (dim - 1)) \div 2 + k * (res \div 2) : k \in 0 .. 2 * (dim - 1)}
AtomCoords(center, res, dim) ==
    {<<x, y, z>> : x \in AxisCoords(center[1], res, dim),
                   y \in AxisCoords(center[2], res, dim),
                   z \in AxisCoords(center[3], res, dim)}
\* one atom of channel ch (from 0) at p
OneAtom(p, ch) == [xyz |-> <<p>>, c |-> <<ch>>]
SingleAtoms(nch, center, res, dim) ==
    {OneAtom(p, ch) : p \in AtomCoords(center, res, dim), ch \in 0 .. nch - 1}

\* a fitter without convolution and suppression, and a call on the density
\* of one atom; thresholds lie strictly between zero and the peak density,
\* the peak value is off, 1.5 times the peak density, or half of it
InitSingle ==
    /\ gd = NoGd
    /\ rt = NoRt
    /\ IdleQueues
    /\ IdleKernelCalls
    /\ IdleRmsd
    /\ beam_size = 1
    /\ multi_atom = FALSE
    /\ n_atoms_detect \in {-1, 0, 1, MaxDetect}
    /\ apply_conv = FALSE
    /\ min_dist = 0
    /\ constrain_types \in BOOLEAN
    /\ fit_L1_loss = FALSE
    /\ interm_gd_iters = 1
    /\ final_gd_iters = 1
    /\ kernel = NoKernel
    /\ channels \in {<<3>>, <<2, 3>>}
    /\ types = [k \in DOMAIN channels |-> 1]
    /\ \E center \in Centers, res \in DetectResolution, dim \in GridDims,
          tie_up \in BOOLEAN, tys \in DetectTypes(Len(channels)) :
          \E st \in SingleAtoms(Len(channels), center, res, dim) :
             /\ struct_true = st
             /\ det_in = Call(c2grid(st.xyz, st.c, channels, center, res, dim),
                              tys, center, res, tie_up)
    /\ threshold \in {1, PeakDensity(channels[struct_true.c[1] + 1]) - 1}
    /\ peak_value \in {Inf,
                       (3 * PeakDensity(channels[struct_true.c[1] + 1])) \div 2,
                       PeakDensity(channels[struct_true.c[1] + 1]) \div 2}
    /\ pc = "idle"
    /\ grid_true = None
    /\ best_structs = <<>>
    /\ new_best_structs = <<>>
    /\ found_new_best_struct = FALSE
    /\ expanded_ids = {}
    /\ visited_structs = <<>>
    /\ struct_count = 0
    /\ cur = 0
    /\ nxt = 0
    /\ do_single_atom = FALSE
    /\ xyz_new = <<>>
    /\ c_new = <<>>
    /\ clock = 0
    /\ ret = None
    /\ det_out = [xyz |-> <<>>, c |-> <<>>]

SpecSingle == InitSingle /\ [][NextDetect]_vars

\* ---- convolve and get_types_estimate calls on one fitter

\* the calls explored on one fitter
MaxCalls == 3
\* the channel sets (one channel each) and resolutions of the calls
KernelChannelSets == {<<1>>, <<3>>}
KernelResolutions == {4, 6}
\* the grids of the calls: one channel, a single voxel or one voxel of eight
KernelGrids ==
    {MkGrid(1, 1, [f \in 0 .. 0 |-> 1]),
     MkGrid(1, 2, [f \in 0 .. 7 |-> IF f = 0 THEN 1 ELSE 0])}
\* the record of a call: its arguments, whether it built the kernel, the
\* (channels, resolution) of the kernel it worked with, and its result
KernelCall(op, grid, chs, res, built, k, result) ==
    [op |-> op, grid |-> grid, channels |-> chs, resolution |-> res,
     built |-> built,
     used |-> [channels |-> k.channels, resolution |-> k.resolution],
     result |-> result]

InitKernel ==
    /\ gd = NoGd
    /\ rt = NoRt
    /\ IdleQueues
    /\ IdleStruct
    /\ IdleRmsd
    /\ kcalls = <<>>
    /\ beam_size = 1
    /\ multi_atom = FALSE
    /\ n_atoms_detect = 1
    /\ apply_conv = TRUE
    /\ threshold = 0
    /\ peak_value = Inf
    /\ min_dist = 0
    /\ constrain_types = FALSE
    /\ fit_L1_loss = FALSE
    /\ interm_gd_iters = 1
    /\ final_gd_iters = 1
    /\ kernel = NoKernel
    /\ channels = <<>>
    /\ types = <<>>
    /\ pc = "idle"
    /\ grid_true = None
    /\ best_structs = <<>>
    /\ new_best_structs = <<>>
    /\ found_new_best_struct = FALSE
    /\ expanded_ids = {}
    /\ visited_structs = <<>>
    /\ struct_count = 0
    /\ cur = 0
    /\ nxt = 0
    /\ do_single_atom = FALSE
    /\ xyz_new = <<>>
    /\ c_new = <<>>
    /\ clock = 0
    /\ ret = None
    /\ det_in = NoCall
    /\ det_out = [xyz |-> <<>>, c |-> <<>>]

\* the call convolve(grid, channels, resolution)
convolve_call ==
    \E grid \in KernelGrids, chs \in KernelChannelSets,
       res \in KernelResolutions :
        /\ Len(kcalls) < MaxCalls
        /\ kernel' = KernelUsed(kernel, chs, res)
        /\ kcalls' = Append(kcalls,
               KernelCall("convolve", grid, chs, res, kernel = NoKernel,
                          kernel', convolve(grid, chs, res)))
        /\ UNCHANGED <<struct_true, rmsdvars, qvars, gd, rt, cfgvars, channels, types, fitvars,
                       detvars>>

\* the call get_types_estimate(grid, channels, resolution)
get_types_estimate_call ==
    \E grid \in KernelGrids, chs \in KernelChannelSets,
       res \in KernelResolutions :
        /\ Len(kcalls) < MaxCalls
        /\ kernel' = KernelUsed(kernel, chs, res)
        /\ kcalls' = Append(kcalls,
               KernelCall("get_types_estimate", grid, chs, res,
                          kernel = NoKernel, kernel',
                          get_types_estimate(grid, chs, res)))
        /\ UNCHANGED <<struct_true, rmsdvars, qvars, gd, rt, cfgvars, channels, types, fitvars,
                       detvars>>

NextKernel == convolve_call \/ get_types_estimate_call

SpecKernel == InitKernel /\ [][NextKernel]_vars

\* ---- get_min_rmsd, src/generate.py:1703-1742, and its caller

\* the structures compared have at most this many atoms
MaxAtoms == 3
\* the positions and the channel labels of their atoms
RmsdPoints == {<<0, 0, 0>>, <<1, 2, 0>>}
RmsdLabels == {0, 1}
\* a structure as a list of (position, label) pairs
AtomLists ==
    UNION {[1 .. n -> RmsdPoints \X RmsdLabels] : n \in 0 .. MaxAtoms}
RmsdCall(a1, a2) ==
    [xyz1 |-> [i \in DOMAIN a1 |-> a1[i][1]], c1 |-> [i \in DOMAIN a1 |-> a1[i][2]],
     xyz2 |-> [i \in DOMAIN a2 |-> a2[i][1]], c2 |-> [i \in DOMAIN a2 |-> a2[i][2]]]

\* np.argsort(c): the indices of c by rising label; the order of equal
\* labels is not specified (rising or falling index)
RECURSIVE ArgInsert(_, _, _, _)
ArgInsert(c, a, sorted, up) ==
    IF sorted = <<>> THEN <<a>>
    ELSE IF c[a] < c[Head(sorted)]
            \/ (c[a] = c[Head(sorted)] /\ (IF up THEN a < Head(sorted)
                                           ELSE a > Head(sorted)))
         THEN <<a>> \o sorted
         ELSE <<Head(sorted)>> \o ArgInsert(c, a, Tail(sorted), up)
RECURSIVE ArgSortFrom(_, _, _)
ArgSortFrom(c, f, up) ==
    IF f > Len(c) THEN <<>>
    ELSE ArgInsert(c, f, ArgSortFrom(c, f + 1, up), up)
argsort(c, up) == ArgSortFrom(c, 1, up)
\* a[idx]
Gather(a, idx) == [k \in DOMAIN idx |-> a[idx[k]]]
\* faulty variant: all(c1 != c2)
TypesDifferAll(c1, c2) == c1 # <<>> /\ \A k \in DOMAIN c1 : c1[k] # c2[k]
\* any(c1 != c2), for arrays of one length
TypesDiffer(c1, c2) == \E k \in DOMAIN c1 : c1[k] # c2[k]
\* xyz[c == ch]
ChannelPoints(xyz, c, ch) == Mask(xyz, [k \in DOMAIN xyz |-> c[k] = ch])
\* dist2_c
Dist2Matrix(xyz1_c, xyz2_c) ==
    [i \in DOMAIN xyz1_c |-> [j \in DOMAIN xyz2_c |-> Dist2(xyz1_c[i], xyz2_c[j])]]
\* the one-to-one assignments of n rows to m >= n columns
Injections(n, m) ==
    {p \in [1 .. n -> 1 .. m] : \A i, j \in 1 .. n : p[i] = p[j] => i = j}
Assignments(n) == Injections(n, n)
AssignmentCost(m, p) == SumSeq([i \in DOMAIN p |-> m[i][p[i]]])
\* faulty variant: rows matched to columns in the order listed
AssignInOrder(m) == AssignmentCost(m, [i \in DOMAIN m |-> i])
\* the number of columns of a matrix
Columns(m) == IF m = <<>> THEN 0 ELSE Len(m[1])
Transposed(m) == [j \in 1 .. Columns(m) |-> [i \in DOMAIN m |-> m[i][j]]]
\* the least cost of assigning every row of m to a column of its own
\* (no more rows than columns)
LeastCost(m) ==
    CHOOSE cost \in {AssignmentCost(m, p) : p \in Injections(Len(m), Columns(m))} :
        \A p \in Injections(Len(m), Columns(m)) : cost <= AssignmentCost(m, p)
\* dist2_c[linear_sum_assignment(dist2_c)].sum(): the cost of an assignment
\* of least total cost; of a matrix that is not square the shorter side is
\* assigned
linear_sum_assignment(m) ==
    IF Len(m) <= Columns(m) THEN LeastCost(m) ELSE LeastCost(Transposed(m))
\* the labels of set(c1), as a list
RECURSIVE LabelList(_)
LabelList(labels) ==
    IF labels = {} THEN <<>>
    ELSE LET ch == CHOOSE x \in labels : \A y \in labels : x <= y
         IN  <<ch>> \o LabelList(labels \ {ch})
\* faulty variant: ssd = ... instead of ssd += ...
SsdLastOnly(costs) == IF costs = <<>> THEN 0 ELSE costs[Len(costs)]
\* ssd after the loop over the channels
Ssd(costs) == SumSeq(costs)
\* the loop of lines 1733-1740 over sorted inputs
SsdOfSorted(xyz1, c1, xyz2, c2) ==
    Ssd([k \in DOMAIN LabelList({c1[i] : i \in DOMAIN c1}) |->
            linear_sum_assignment(
                Dist2Matrix(
                    ChannelPoints(xyz1, c1,
                                  LabelList({c1[i] : i \in DOMAIN c1})[k]),
                    ChannelPoints(xyz2, c2,
                                  LabelList({c1[i] : i \in DOMAIN c1})[k])))])
\* get_min_rmsd: what the call does.  A returned value stands for
\* sqrt(ssd / n_atoms); the division fails when n_atoms = 0.
get_min_rmsd(xyz1, c1, xyz2, c2, up) ==
    IF Len(c1) # Len(c2)
    THEN [status |-> "ValueError", ssd |-> 0, n_atoms |-> Len(c1)]
    ELSE IF TypesDiffer(Gather(c1, argsort(c1, up)), Gather(c2, argsort(c2, up)))
    THEN [status |-> "ValueError", ssd |-> 0, n_atoms |-> Len(c1)]
    ELSE IF Len(c1) = 0
    THEN [status |-> "ZeroDivisionError", ssd |-> 0, n_atoms |-> 0]
    ELSE [status |-> "returned",
          ssd |-> SsdOfSorted(Gather(xyz1, argsort(c1, up)),
                              Gather(c1, argsort(c1, up)),
                              Gather(xyz2, argsort(c2, up)),
                              Gather(c2, argsort(c2, up))),
          n_atoms |-> Len(c1)]

InitRmsd ==
    /\ gd = NoGd
    /\ rt = NoRt
    /\ IdleQueues
    /\ IdleStruct
    /\ IdleKernelCalls
    /\ rmsd_in \in {RmsdCall(a1, a2) : a1 \in AtomLists, a2 \in AtomLists}
    /\ rmsd_out = NoRmsd
    /\ m_RMSD = NoMetric
    /\ beam_size = 1
    /\ multi_atom = FALSE
    /\ n_atoms_detect = 1
    /\ apply_conv = FALSE
    /\ threshold = 0
    /\ peak_value = Inf
    /\ min_dist = 0
    /\ constrain_types = FALSE
    /\ fit_L1_loss = FALSE
    /\ interm_gd_iters = 1
    /\ final_gd_iters = 1
    /\ kernel = NoKernel
    /\ channels = <<>>
    /\ types = <<>>
    /\ pc = "idle"
    /\ grid_true = None
    /\ best_structs = <<>>
    /\ new_best_structs = <<>>
    /\ found_new_best_struct = FALSE
    /\ expanded_ids = {}
    /\ visited_structs = <<>>
    /\ struct_count = 0
    /\ cur = 0
    /\ nxt = 0
    /\ do_single_atom = FALSE
    /\ xyz_new = <<>>
    /\ c_new = <<>>
    /\ clock = 0
    /\ ret = None
    /\ det_in = NoCall
    /\ det_out = [xyz |-> <<>>, c |-> <<>>]

\* lines 1160-1163: the call get_min_rmsd(ref_struct.xyz, ref_struct.c,
\* struct.xyz, struct.c) inside the try; argsort may leave equal labels in
\* either order
get_min_rmsd_call ==
    /\ pc = "idle"
    /\ \E up \in BOOLEAN :
          rmsd_out' = get_min_rmsd(rmsd_in.xyz1, rmsd_in.c1, rmsd_in.xyz2,
                                   rmsd_in.c2, up)
    /\ pc' = "called"
    /\ UNCHANGED <<rmsd_in, m_RMSD, struct_true, kcalls, qvars, gd, rt, cfgvars, kernel,
                   channels, types, grid_true, best_structs, new_best_structs,
                   found_new_best_struct, expanded_ids, visited_structs,
                   struct_count, cur, nxt, do_single_atom, xyz_new, c_new,
                   clock, ret, detvars>>

\* lines 1164-1167: except (ValueError, ZeroDivisionError): rmsd = nan, and
\* the metric is written
record_rmsd ==
    /\ pc = "called"
    /\ m_RMSD' = IF rmsd_out.status = "returned"
                 THEN [kind |-> "value", ssd |-> rmsd_out.ssd,
                       n_atoms |-> rmsd_out.n_atoms]
                 ELSE [kind |-> "nan", ssd |-> 0, n_atoms |-> 0]
    /\ pc' = "recorded"
    /\ UNCHANGED <<rmsd_in, rmsd_out, struct_true, kcalls, qvars, gd, rt, cfgvars, kernel,
                   channels, types, grid_true, best_structs, new_best_structs,
                   found_new_best_struct, expanded_ids, visited_structs,
                   struct_count, cur, nxt, do_single_atom, xyz_new, c_new,
                   clock, ret, detvars>>

NextRmsd == get_min_rmsd_call \/ record_rmsd

SpecRmsd == InitRmsd /\ [][NextRmsd]_vars

\* ---- generate_from_model in parallel mode with atom fitting,
\* src/generate.py:1880-1895, 2147-2165; the fit workers, 2205-2231; the
\* output thread, 2251-2255.  A task is [id, grid_type]; the grid itself
\* plays no part in what the queues do.
MaxWorkers == 2
MaxTasks == 2

nonqvars == <<cfgvars, kernel, channels, types, fitvars, detvars,
              struct_true, kcalls, rmsdvars, gd, rt>>

\* the sentinel None
NoneTask == [id |-> 0, grid_type |-> "None"]

GridTasks == [id : 1..MaxTasks, grid_type : {"lig_gen", "lig_gen_fit"}]

\* a put on mp.Queue(maxsize) returns at once, whatever the queue holds
\* (faulty variant)
CanPutAlways(q, maxsize) == TRUE

\* a put on mp.Queue(maxsize) blocks while the queue holds maxsize items;
\* maxsize <= 0 is a queue without a limit
CanPut(q, maxsize) == maxsize <= 0 \/ Len(q) < maxsize

\* out_thread is started, the pool has started its n_fit_workers processes,
\* each of them running fit_worker_main as its initializer
InitParallel ==
    /\ gd = NoGd
    /\ rt = NoRt
    /\ IdleStruct
    /\ IdleKernelCalls
    /\ IdleRmsd
    /\ InitFitLocals
    /\ beam_size = 1
    /\ multi_atom = FALSE
    /\ n_atoms_detect = 1
    /\ apply_conv = FALSE
    /\ threshold = 0
    /\ peak_value = Inf
    /\ min_dist = 0
    /\ constrain_types = FALSE
    /\ fit_L1_loss = FALSE
    /\ interm_gd_iters = 1
    /\ final_gd_iters = 1
    /\ kernel = NoKernel
    /\ channels = <<>>
    /\ types = <<>>
    /\ n_fit_workers \in 1..MaxWorkers
    /\ verbose \in BOOLEAN
    /\ fit_queue = <<>>
    /\ out_queue = <<>>
    /\ main_pc = "loop"
    /\ n_produced = 0
    /\ pool_state = "RUN"
    /\ wpc = [w \in 1..n_fit_workers |-> "get"]
    /\ wtask = [w \in 1..n_fit_workers |-> NoneTask]
    /\ fit_log = <<>>
    /\ out_pc = "get"
    /\ written = [t \in GridTasks |-> 0]

\* line 2148, and the test of line 2149
main_put_out ==
    /\ main_pc = "loop"
    /\ n_produced < MaxTasks
    /\ out_queue' = Append(out_queue,
                           [id |-> n_produced + 1, grid_type |-> "lig_gen"])
    /\ n_produced' = n_produced + 1
    /\ \E grid_needs_fit \in BOOLEAN :
          main_pc' = IF grid_needs_fit THEN "put_fit" ELSE "loop"
    /\ UNCHANGED <<n_fit_workers, verbose, fit_queue, pool_state, wpc, wtask,
                   fit_log, out_pc, written, nonqvars>>

\* line 2150
main_put_fit ==
    /\ main_pc = "put_fit"
    /\ CanPut(fit_queue, n_fit_workers)
    /\ fit_queue' = Append(fit_queue,
                           [id |-> n_produced, grid_type |-> "lig_gen"])
    /\ main_pc' = "loop"
    /\ UNCHANGED <<n_fit_workers, verbose, out_queue, n_produced, pool_state,
                   wpc, wtask, fit_log, out_pc, written, nonqvars>>

\* the try block is left, by the end of the loops or by an exception
main_finally ==
    /\ main_pc = "loop"
    /\ main_pc' = "finally"
    /\ UNCHANGED <<n_fit_workers, verbose, fit_queue, out_queue, n_produced,
                   pool_state, wpc, wtask, fit_log, out_pc, written, nonqvars>>

\* lines 2160-2162: the two lines that put one None per worker are comments
pool_close ==
    /\ main_pc = "finally"
    /\ pool_state' = "CLOSE"
    /\ main_pc' = "join_pool"
    /\ UNCHANGED <<n_fit_workers, verbose, fit_queue, out_queue, n_produced,
                   wpc, wtask, fit_log, out_pc, written, nonqvars>>

\* line 2163: join returns when every worker process has ended
pool_join ==
    /\ main_pc = "join_pool"
    /\ \A w \in DOMAIN wpc : wpc[w] \in {"exited", "dead"}
    /\ main_pc' = "put_none"
    /\ UNCHANGED <<n_fit_workers, verbose, fit_queue, out_queue, n_produced,
                   pool_state, wpc, wtask, fit_log, out_pc, written, nonqvars>>

\* line 2164
main_put_none ==
    /\ main_pc = "put_none"
    /\ out_queue' = Append(out_queue, NoneTask)
    /\ main_pc' = "join_out"
    /\ UNCHANGED <<n_fit_workers, verbose, fit_queue, n_produced, pool_state,
                   wpc, wtask, fit_log, out_pc, written, nonqvars>>

\* line 2165
out_join ==
    /\ main_pc = "join_out"
    /\ out_pc = "exited"
    /\ main_pc' = "returned"
    /\ UNCHANGED <<n_fit_workers, verbose, fit_queue, out_queue, n_produced,
                   pool_state, wpc, wtask, fit_log, out_pc, written, nonqvars>>

\* lines 2209-2213
worker_get(w) ==
    /\ wpc[w] = "get"
    /\ fit_queue # <<>>
    /\ fit_queue' = Tail(fit_queue)
    /\ IF Head(fit_queue) = NoneTask
       THEN /\ wpc' = [wpc EXCEPT ![w] = "exited"]
            /\ UNCHANGED <<wtask, fit_log>>
       ELSE /\ wpc' = [wpc EXCEPT ![w] = "put_grid"]
            /\ wtask' = [wtask EXCEPT ![w] = Head(fit_queue)]
            /\ fit_log' = Append(fit_log, Head(fit_queue).id)
    /\ UNCHANGED <<n_fit_workers, verbose, out_queue, main_pc, n_produced,
                   pool_state, out_pc, written, nonqvars>>

\* line 2218
worker_put_grid(w) ==
    /\ wpc[w] = "put_grid"
    /\ out_queue' = Append(out_queue, wtask[w])
    /\ wpc' = [wpc EXCEPT ![w] = "fit"]
    /\ UNCHANGED <<n_fit_workers, verbose, fit_queue, main_pc, n_produced,
                   pool_state, wtask, fit_log, out_pc, written, nonqvars>>

\* lines 2220-2226: struct_fit is no name of fit_worker_main, so the print
\* of a verbose worker raises NameError and ends the process
worker_fit(w) ==
    /\ wpc[w] = "fit"
    /\ IF verbose
       THEN /\ wpc' = [wpc EXCEPT ![w] = "dead"]
            /\ wtask' = [wtask EXCEPT ![w] = NoneTask]
       ELSE /\ wpc' = [wpc EXCEPT ![w] = "put_fit"]
            /\ wtask' = [wtask EXCEPT ![w].grid_type = "lig_gen_fit"]
    /\ UNCHANGED <<n_fit_workers, verbose, fit_queue, out_queue, main_pc,
                   n_produced, pool_state, fit_log, out_pc, written, nonqvars>>

\* line 2228
worker_put_fit(w) ==
    /\ wpc[w] = "put_fit"
    /\ out_queue' = Append(out_queue, wtask[w])
    /\ wpc' = [wpc EXCEPT ![w] = "get"]
    /\ wtask' = [wtask EXCEPT ![w] = NoneTask]
    /\ UNCHANGED <<n_fit_workers, verbose, fit_queue, main_pc, n_produced,
                   pool_state, fit_log, out_pc, written, nonqvars>>

\* a running pool replaces a worker process that has ended (line 1891:
\* mp.Pool); the new process runs fit_worker_main again
pool_repopulate(w) ==
    /\ pool_state = "RUN"
    /\ wpc[w] = "dead"
    /\ wpc' = [wpc EXCEPT ![w] = "get"]
    /\ UNCHANGED <<n_fit_workers, verbose, fit_queue, out_queue, main_pc,
                   n_produced, pool_state, wtask, fit_log, out_pc, written,
                   nonqvars>>

\* lines 2251-2255
out_get ==
    /\ out_pc = "get"
    /\ out_queue # <<>>
    /\ out_queue' = Tail(out_queue)
    /\ IF Head(out_queue) = NoneTask
       THEN /\ out_pc' = "exited"
            /\ UNCHANGED written
       ELSE /\ written' = [written EXCEPT ![Head(out_queue)] = @ + 1]
            /\ UNCHANGED out_pc
    /\ UNCHANGED <<n_fit_workers, verbose, fit_queue, main_pc, n_produced,
                   pool_state, wpc, wtask, fit_log, nonqvars>>

NextParallel ==
    \/ main_put_out
    \/ main_put_fit
    \/ main_finally
    \/ pool_close
    \/ pool_join
    \/ main_put_none
    \/ out_join
    \/ \E w \in DOMAIN wpc : worker_get(w)
    \/ \E w \in DOMAIN wpc : worker_put_grid(w)
    \/ \E w \in DOMAIN wpc : worker_fit(w)
    \/ \E w \in DOMAIN wpc : worker_put_fit(w)
    \/ \E w \in DOMAIN wpc : pool_repopulate(w)
    \/ out_get

SpecParallel == InitParallel /\ [][NextParallel]_vars

\* ---- one call of fit_gd, src/generate.py:632-670, step by step
MaxIters == 2

\* what one solver.step() can add to the coordinates of an atom
SolverMoves == {<<0, 0, 0>>, <<1, 0, 0>>, <<0, -1, 0>>}

\* the structures fit_gd is called on: coordinates and one-hot channel rows
GdStructs ==
    {[xyz |-> <<>>, c |-> <<>>]}
    \cup {[xyz |-> <<<<0, 0, 0>>>>, c |-> <<r>>] : r \in {<<1, 0>>, <<0, 1>>}}
    \cup {[xyz |-> <<<<0, 0, 0>>, <<2, 0, 0>>>>, c |-> <<r, q>>] :
             r \in {<<1, 0>>, <<0, 1>>}, q \in {<<1, 0>>, <<0, 1>>}}

\* faulty variant: the loop is left one iteration early
LastIterationEarly(i, n_iters) == i >= n_iters - 1

\* line 658: if i == n_iters
LastIteration(i, n_iters) == i = n_iters

\* the caller holds xyz_in and c_in and passes n_iters
InitGd ==
    /\ IdleStruct
    /\ IdleKernelCalls
    /\ IdleRmsd
    /\ IdleQueues
    /\ rt = NoRt
    /\ InitFitLocals
    /\ beam_size = 1
    /\ multi_atom = FALSE
    /\ n_atoms_detect = 1
    /\ apply_conv = FALSE
    /\ threshold = 0
    /\ peak_value = Inf
    /\ min_dist = 0
    /\ constrain_types = FALSE
    /\ fit_L1_loss \in BOOLEAN
    /\ interm_gd_iters = 1
    /\ final_gd_iters = 1
    /\ kernel = NoKernel
    /\ channels = <<1, 2>>
    /\ types = <<>>
    /\ \E s \in GdStructs, n \in 0 .. MaxIters :
          gd = [pc |-> "idle", args |-> s, xyz_in |-> s.xyz, c_in |-> s.c,
                n_iters |-> n, xyz |-> <<>>, c |-> <<>>, i |-> 0, steps |-> 0,
                loss_at |-> <<>>, out |-> <<>>]

\* lines 634-647: xyz and c are clones of the arguments
fit_gd_begin ==
    /\ gd.pc = "idle"
    /\ gd' = [gd EXCEPT !.pc = "for", !.xyz = gd.xyz_in, !.c = gd.c_in,
                        !.i = 0]
    /\ UNCHANGED <<rt, struct_true, kcalls, rmsdvars, qvars, cfgvars, kernel,
                   channels, types, fitvars, detvars>>

\* lines 648-661: one turn of the loop: the density of the current
\* coordinates is rendered and the loss taken; the last turn stops here,
\* every other turn ends with one step of the optimizer
fit_gd_iter ==
    /\ gd.pc = "for"
    /\ gd.i <= gd.n_iters
    /\ IF LastIteration(gd.i, gd.n_iters)
       THEN gd' = [gd EXCEPT !.loss_at = gd.xyz, !.pc = "return"]
       ELSE \E d \in [DOMAIN gd.xyz -> SolverMoves] :
               gd' = [gd EXCEPT
                        !.loss_at = gd.xyz,
                        !.xyz = [k \in DOMAIN gd.xyz |->
                                   <<gd.xyz[k][1] + d[k][1],
                                     gd.xyz[k][2] + d[k][2],
                                     gd.xyz[k][3] + d[k][3]>>],
                        !.steps = gd.steps + 1,
                        !.i = gd.i + 1]
    /\ UNCHANGED <<rt, struct_true, kcalls, rmsdvars, qvars, cfgvars, kernel,
                   channels, types, fitvars, detvars>>

\* lines 663-668: the coordinates and the density, residual and loss of the
\* last turn
fit_gd_return ==
    /\ gd.pc = "return"
    /\ gd' = [gd EXCEPT !.pc = "returned",
                        !.out = [xyz |-> gd.xyz, loss_at |-> gd.loss_at]]
    /\ UNCHANGED <<rt, struct_true, kcalls, rmsdvars, qvars, cfgvars, kernel,
                   channels, types, fitvars, detvars>>

NextGd == fit_gd_begin \/ fit_gd_iter \/ fit_gd_return

SpecGd == InitGd /\ [][NextGd]_vars

(***************************************************************************)
(* remove_tensors (src/generate.py:42-71), one call step by step.  The     *)
(* object graph is a heap of nodes: an AtomGrid/AtomStruct object (its     *)
(* __dict__), a dict or a list, each with an ordered sequence of slots.    *)
(* A slot holds a torch tensor, a numpy array, any other plain value, or a *)
(* reference to a node; references may form cycles and may be shared.      *)
(***************************************************************************)
MaxNodes == 2
MaxSlots == 2

Nodes == 1 .. MaxNodes

NodeKinds == {"object", "dict", "list"}

\* what a slot holds: a torch.Tensor, a numpy array, another plain value,
\* or a reference to a node (ref is 0 unless the slot is a reference)
Tensor == [tag |-> "Tensor", ref |-> 0]

Ndarray == [tag |-> "ndarray", ref |-> 0]

Plain == [tag |-> "float", ref |-> 0]

Ref(n) == [tag |-> "ref", ref |-> n]

SlotValues == {Tensor, Plain} \cup {Ref(n) : n \in Nodes}

SlotSeqs == UNION {[1 .. n -> SlotValues] : n \in 0 .. MaxSlots}

Heaps == [Nodes -> [kind : NodeKinds, slots : SlotSeqs]]

\* lines 55-59: dct is the dict itself or the object's __dict__; a list has
\* neither
HasDict(node) == node.kind \in {"dict", "object"}

\* lines 62-69: the value stored back into one slot.  A tensor that is a
\* dict value is converted (63-64); every other value, and every list
\* element, is what the recursive call returns, which is the value itself
\* (48-50 for non-containers and visited nodes, 71 for traversed ones)
SlotAfter(node, v) ==
    IF HasDict(node) /\ v = Tensor THEN Ndarray ELSE v

\* line 48: the call descends only into containers not yet visited.  Every
\* node of the heap is an AtomGrid, AtomStruct, list or dict.
Descends(v, visited) == v.tag = "ref" /\ v.ref \notin visited

InitRt ==
    /\ IdleStruct
    /\ IdleKernelCalls
    /\ IdleRmsd
    /\ IdleQueues
    /\ gd = NoGd
    /\ InitFitLocals
    /\ beam_size = 1
    /\ multi_atom = FALSE
    /\ n_atoms_detect = 1
    /\ apply_conv = FALSE
    /\ threshold = 0
    /\ peak_value = Inf
    /\ min_dist = 0
    /\ constrain_types = FALSE
    /\ fit_L1_loss = FALSE
    /\ interm_gd_iters = 1
    /\ final_gd_iters = 1
    /\ kernel = NoKernel
    /\ channels = <<1>>
    /\ types = <<>>
    /\ \E h \in Heaps, r \in Nodes :
          rt = [pc |-> "idle", root |-> r, before |-> h, heap |-> h,
                visited |-> {}, stack |-> <<>>]

\* lines 42-53, top-level call: visited is a fresh set, obj is a container,
\* its id is added
remove_tensors_call ==
    /\ rt.pc = "idle"
    /\ rt' = [rt EXCEPT !.pc = "run",
                        !.visited = {rt.root},
                        !.stack = <<[node |-> rt.root, i |-> 1]>>]
    /\ UNCHANGED <<cfgvars, kernel, channels, types, fitvars, detvars,
                   struct_true, kcalls, rmsdvars, qvars, gd>>

\* lines 60-69, one turn of the loop of the innermost call: the slot is
\* converted or handed to a recursive call, which returns at once (48-50)
\* or becomes the innermost call (53)
remove_tensors_slot ==
    /\ rt.pc = "run"
    /\ LET top == rt.stack[Len(rt.stack)]
           node == rt.heap[top.node]
       IN  /\ top.i <= Len(node.slots)
           /\ LET v == node.slots[top.i]
                  advanced == [rt.stack EXCEPT ![Len(rt.stack)].i = top.i + 1]
              IN  rt' = [rt EXCEPT
                     !.heap[top.node].slots[top.i] = SlotAfter(node, v),
                     !.visited = IF Descends(v, rt.visited)
                                 THEN rt.visited \cup {v.ref}
                                 ELSE rt.visited,
                     !.stack = IF Descends(v, rt.visited)
                               THEN Append(advanced,
                                           [node |-> v.ref, i |-> 1])
                               ELSE advanced]
    /\ UNCHANGED <<cfgvars, kernel, channels, types, fitvars, detvars,
                   struct_true, kcalls, rmsdvars, qvars, gd>>

\* line 71: the innermost call returns obj; the outermost one ends the call
remove_tensors_return ==
    /\ rt.pc = "run"
    /\ LET top == rt.stack[Len(rt.stack)]
       IN  /\ top.i > Len(rt.heap[top.node].slots)
           /\ rt' = [rt EXCEPT
                       !.stack = SubSeq(rt.stack, 1, Len(rt.stack) - 1),
                       !.pc = IF Len(rt.stack) = 1 THEN "returned" ELSE "run"]
    /\ UNCHANGED <<cfgvars, kernel, channels, types, fitvars, detvars,
                   struct_true, kcalls, rmsdvars, qvars, gd>>

NextRt == remove_tensors_call \/ remove_tensors_slot \/ remove_tensors_return

SpecRt == InitRt /\ [][NextRt]_vars

\* the call takes every step it can
FairSpecRt == SpecRt /\ WF_vars(NextRt)

Next ==
    \/ fit_begin
    \/ while_enter
    \/ for_skip
    \/ for_enter
    \/ joint_expand
    \/ single_expand
    \/ mark_expanded
    \/ merge
    \/ fit_final_raise
    \/ fit_final

Spec == Init /\ [][Next]_vars

-----------------------------------------------------------------------------
(* Properties of AtomFitter.fit *)

Last(seq) == seq[Len(seq)]
\* the fit loss inside an objective (its last component)
LossOf(objective) == objective[Len(objective)]
\* the channel index of a one-hot row
RowChannel(row) == CHOOSE ch \in 0 .. Len(row) - 1 : row[ch + 1] = 1
\* an expansion was accepted in this step
Accepted == Len(new_best_structs') = Len(new_best_structs) + 1
\* the step ends a pass (lines 545-564)
EndsPass == pc = "for" /\ pc' = "while"

\* C1: an expansion is accepted exactly when its objective is strictly
\* lower than the objective of some member of the pool, and the pool
\* changes only at the merge that ends a pass (or when fit sets it up).  An
\* accepted expansion gets the next candidate id and the frontier detected
\* in its own residual with its own remaining type counts; a rejected one
\* gets no id and no frontier.
C1_AcceptRule ==
    [][ /\ (joint_expand \/ single_expand) =>
            LET e == Last(visited_structs')
            IN  /\ best_structs' = best_structs
                /\ Accepted <=>
                       \E k \in DOMAIN best_structs :
                           ObjLess(e.objective, best_structs[k].objective)
                /\ Accepted =>
                       LET n == Last(new_best_structs')
                       IN  /\ n.struct_id = struct_count
                           /\ struct_count' = struct_count + 1
                           /\ n.objective = e.objective
                           /\ n.xyz = e.xyz /\ n.c = e.c
                           /\ FitLoss(det_in'.grid) = LossOf(e.objective)
                           /\ det_in'.types = TypeDiff(types, n.c)
                           /\ Detect(det_in'.grid, det_in'.types, det_in'.tie_up)
                                  = [xyz |-> n.xyz_next, c |-> n.c_next]
                /\ ~ Accepted =>
                       UNCHANGED <<new_best_structs, struct_count, detvars>>
        /\ best_structs' # best_structs => (EndsPass \/ pc = "idle")
      ]_vars

\* an expansion was accepted and another one was rejected
C1_Witness ==
    /\ pc \in {"for", "joint", "single"}
    /\ struct_count >= 2
    /\ Len(visited_structs) > struct_count
    /\ Len(best_structs) >= 2

\* C2: with beam_size >= 1 the pool is never empty during a call, and it
\* holds at most beam_size candidates.
C2_PoolBounded ==
    (beam_size >= 1 /\ pc # "idle") =>
        /\ Len(best_structs) >= 1
        /\ Len(best_structs) <= beam_size

\* a merge had more candidates than the beam holds
C2_Witness ==
    /\ pc = "while"
    /\ Len(best_structs) = beam_size
    /\ Len(best_structs) + Len(new_best_structs) > beam_size
    /\ \E k \in DOMAIN new_best_structs :
          \A m \in DOMAIN best_structs :
              new_best_structs[k].struct_id # best_structs[m].struct_id

\* C3: the objective of the first pool member never rises, and the first
\* pool member has the lowest objective of the pool.
C3_BestNonIncreasing ==
    [][ (pc # "idle") =>
          /\ ~ ObjLess(best_structs[1].objective, best_structs'[1].objective)
          /\ \A k \in DOMAIN best_structs' :
                ~ ObjLess(best_structs'[k].objective, best_structs'[1].objective)
      ]_vars

\* a merge put a new candidate first while an older one stayed in the pool
C3_Witness ==
    /\ pc = "while"
    /\ Len(best_structs) >= 2
    /\ best_structs[1].struct_id > best_structs[2].struct_id
    /\ ObjLess(best_structs[1].objective, best_structs[2].objective)

\* C4: after the pool was gone through, another pass starts exactly when
\* this pass accepted an expansion and the size check of line 563 did not
\* stop the search; otherwise the loop is left.
C4_LoopControl ==
    [][ /\ EndsPass =>
            (found_new_best_struct' <=>
                (new_best_structs # <<>> /\ Len(xyz_new) < SizeCap))
        /\ pc = "while" =>
            /\ found_new_best_struct => (pc' = "for" /\ cur' = 1)
            /\ ~ found_new_best_struct => pc' \in {"done", "AttributeError"}
      ]_vars

\* the size check stopped a search that had accepted an expansion
C4_Witness ==
    /\ pc = "done"
    /\ new_best_structs # <<>>
    /\ Len(xyz_new) >= SizeCap

\* C5 (as claimed): after a merge the search is stopped by the size cap
\* exactly when the best pool member has reached the cap.
C5_CapByBest ==
    (pc = "while" /\ new_best_structs # <<>>) =>
        (~ found_new_best_struct <=> Len(best_structs[1].xyz) >= SizeCap)

\* Every expansion attempt appends exactly one entry to the visited log, no
\* step removes or reorders entries, and a call that returns hands over the
\* whole log: the first entry, one per attempt, and the final entry.
C6_LogAppendOnly ==
    [][ /\ (joint_expand \/ single_expand) =>
            Len(visited_structs') = Len(visited_structs) + 1
        /\ pc = "idle" => Len(visited_structs') = 1
        /\ pc # "idle" =>
            /\ Len(visited_structs') >= Len(visited_structs)
            /\ SubSeq(visited_structs', 1, Len(visited_structs)) = visited_structs
        /\ pc' = "done" =>
            LET out == ret'.src_struct.visited_structs
            IN  /\ Len(visited_structs') = Len(visited_structs) + 1
                /\ Len(out) = Len(visited_structs')
                /\ \A k \in DOMAIN out :
                      /\ out[k].xyz = visited_structs'[k].xyz
                      /\ out[k].time = visited_structs'[k].time
                      /\ out[k].c = [i \in DOMAIN visited_structs'[k].c |->
                                       RowChannel(visited_structs'[k].c[i])]
      ]_vars

\* fit returned a log with accepted and rejected attempts
C6_Witness ==
    /\ pc = "done"
    /\ Len(ret.src_struct.visited_structs) >= 5
    /\ Len(visited_structs) > struct_count + 1

\* C6 (as claimed): every expansion attempt appends exactly one entry to
\* the visited log, no entry is removed or reordered, and when the loop is
\* left the final entry is appended and the whole log is handed to the
\* caller.
C6_LogHandedOver ==
    [][ /\ (joint_expand \/ single_expand) =>
            Len(visited_structs') = Len(visited_structs) + 1
        /\ pc # "idle" =>
            SubSeq(visited_structs', 1, Len(visited_structs)) = visited_structs
        /\ (pc = "while" /\ ~ found_new_best_struct) =>
            /\ pc' = "done"
            /\ Len(ret'.src_struct.visited_structs) = Len(visited_structs) + 1
      ]_vars

\* C7 (as claimed): every returned log entry carries the loss of its own
\* attempt.
C7_EntryCarriesOwnObjective ==
    pc = "done" =>
        \A k \in DOMAIN visited_structs :
            ret.src_struct.visited_structs[k].L2_loss
                = LossOf(visited_structs[k].objective)

\* A call that returns, returns the pool member with the lowest objective
\* after refining its coordinates: same number of atoms, same channels.
\* The returned structure is the last entry of the returned log.
C8_ReturnsBest ==
    pc = "done" =>
        LET b == best_structs[1]
            best == ret.src_struct
        IN  /\ \A k \in DOMAIN best_structs :
                  ~ ObjLess(best_structs[k].objective, b.objective)
            /\ Len(best.xyz) = Len(b.xyz)
            /\ best.c = [i \in DOMAIN b.c |-> RowChannel(b.c[i])]
            /\ Last(best.visited_structs).xyz = best.xyz
            /\ Last(best.visited_structs).c = best.c
            /\ Last(visited_structs).xyz = best.xyz

\* the returned structure has atoms and its coordinates were refined
C8_Witness ==
    /\ pc = "done"
    /\ Len(ret.src_struct.xyz) >= 2
    /\ ret.src_struct.xyz # best_structs[1].xyz
    /\ Len(best_structs) >= 2

\* C8 (as claimed): when the loop is left fit refines the first pool
\* member, which has the lowest objective, appends one final log entry for
\* it and returns it with its atom count and channels unchanged, as the
\* last entry of the returned log.
C8_LoopExitReturnsBest ==
    [][(pc = "while" /\ ~ found_new_best_struct) =>
          /\ pc' = "done"
          /\ Len(visited_structs') = Len(visited_structs) + 1
          /\ LET b == best_structs[1]
                 best == ret'.src_struct
             IN  /\ \A k \in DOMAIN best_structs :
                       ~ ObjLess(best_structs[k].objective, b.objective)
                 /\ Len(best.xyz) = Len(b.xyz)
                 /\ best.c = [i \in DOMAIN b.c |-> RowChannel(b.c[i])]
                 /\ Last(best.visited_structs).xyz = best.xyz
                 /\ Last(best.visited_structs).c = best.c
      ]_vars

-----------------------------------------------------------------------------
(* Properties of AtomFitter.detect_atoms *)

\* the call has returned
Returned == pc = "returned"
\* the ranked candidates of the call, before suppression
CallCandidates ==
    RankedCandidates(det_in.grid, channels, det_in.center, det_in.resolution,
                     det_in.types, det_in.tie_up)
\* min_dist x (r_a + r_b), squared
MinDist2(ca, cb) ==
    (min_dist * (channels[ca + 1] + channels[cb + 1]))
    * (min_dist * (channels[ca + 1] + channels[cb + 1]))
\* candidate i has a higher-ranked candidate of its channel closer than that
HasCloserHigher(cands, i) ==
    \E j \in 1 .. i - 1 :
        /\ cands[j].c = cands[i].c
        /\ Dist2(cands[j].xyz, cands[i].xyz) < MinDist2(cands[j].c, cands[i].c)
AllZero(grid) == \A f \in DOMAIN grid.values : grid.values[f] = 0

\* C9 (as claimed): with min_dist > 0 a candidate is suppressed exactly
\* when a higher-ranked candidate of its channel is closer than
\* min_dist x (r_a + r_b); so no two returned atoms of one channel are
\* closer than that.
C9_SuppressedIffCloserHigher ==
    (Returned /\ min_dist > 0) =>
        LET cands == CallCandidates
            kept == Mask(cands, [i \in DOMAIN cands |->
                                    ~ HasCloserHigher(cands, i)])
            out == IF n_atoms_detect >= 0 THEN Take(kept, n_atoms_detect)
                   ELSE kept
        IN  /\ det_out.xyz = [k \in DOMAIN out |-> out[k].xyz]
            /\ \A i, j \in DOMAIN det_out.xyz :
                  (i < j /\ det_out.c[i] = det_out.c[j]) =>
                      Dist2(det_out.xyz[i], det_out.xyz[j])
                          >= MinDist2(RowChannel(det_out.c[i]),
                                      RowChannel(det_out.c[j]))

\* C10 (as claimed): an all-zero grid gives no atoms, whatever the
\* configuration.
C10_ZeroGridEmpty ==
    (Returned /\ AllZero(det_in.grid)) =>
        (det_out.xyz = <<>> /\ det_out.c = <<>>)

\* C10 (amended): an all-zero grid gives no atoms whenever a threshold of
\* at least zero is applied, for every grid size, channel set and setting of
\* the other options.
C10_ZeroGridEmptyAboveThreshold ==
    (Returned /\ AllZero(det_in.grid) /\ threshold > -Inf /\ threshold >= 0) =>
        (det_out.xyz = <<>> /\ det_out.c = <<>>)

\* a call on an all-zero grid with a threshold of zero that could return
\* atoms as far as the other options go
C10_Witness ==
    /\ Returned
    /\ AllZero(det_in.grid)
    /\ det_in.grid.dim = 2
    /\ threshold = 0
    /\ n_atoms_detect = -1
    /\ apply_conv
    /\ ~ constrain_types
    /\ det_out.xyz = <<>>

\* the entries of the call above the threshold, in ranking order, before
\* any channel is excluded
CallEntries ==
    LET g == FoldPeak(Convolved(det_in.grid, channels, det_in.resolution))
    IN  AboveThreshold(
            SortedEntries(g, SortDescending(g, det_in.tie_up), det_in.grid.nch,
                          det_in.grid.dim, det_in.center, det_in.resolution))

\* C25: with the type constraint, no returned atom is of a channel whose
\* remaining count passed to the call is zero or less, and the entries of
\* the other channels all stay candidates: what is returned is what
\* suppression and the limit leave of the entries above the threshold whose
\* channel has a positive remaining count.
C25_ExhaustedChannelsExcluded ==
    (Returned /\ constrain_types) =>
        LET all == CallEntries
            left == Mask(all, [k \in DOMAIN all |->
                                 det_in.types[all[k].c + 1] >= 1])
            out == Limit(SuppressNonMax(left, channels))
        IN  /\ \A k \in DOMAIN det_out.c :
                  det_in.types[RowChannel(det_out.c[k]) + 1] > 0
            /\ det_out.xyz = [k \in DOMAIN out |-> out[k].xyz]
            /\ det_out.c = [k \in DOMAIN out |-> one_hot(out[k].c, Len(channels))]

\* a call with two channels in which the entry ranked first is of a channel
\* with no atoms left and an entry of the other channel was returned
C25_Witness ==
    /\ Returned
    /\ constrain_types
    /\ Len(channels) = 2
    /\ CallEntries # <<>>
    /\ det_in.types[CallEntries[1].c + 1] <= 0
    /\ det_out.c # <<>>

\* the candidates of the call that thresholding, the type filter and the
\* suppression step of the call have left, in ranking order
Survivors == SuppressNonMax(CallCandidates, channels)

\* C26: with n_atoms_detect >= 0 the call returns the first n_atoms_detect
\* survivors (all when there are fewer, none for 0), with a negative
\* n_atoms_detect it returns every survivor; in both cases in ranking
\* order, which is one of falling value.
C26_LimitedToFirst ==
    Returned =>
        LET surv == Survivors
            n == IF n_atoms_detect >= 0 /\ n_atoms_detect < Len(surv)
                 THEN n_atoms_detect ELSE Len(surv)
        IN  /\ Len(det_out.xyz) = n
            /\ Len(det_out.c) = n
            /\ n_atoms_detect >= 0 => Len(det_out.xyz) <= n_atoms_detect
            /\ \A k \in 1 .. n :
                  /\ det_out.xyz[k] = surv[k].xyz
                  /\ RowChannel(det_out.c[k]) = surv[k].c
            /\ \A k, j \in 1 .. Len(surv) :
                  k < j => ~ FracGt(surv[j].v, surv[k].v)

\* a call with suppression that returned n_atoms_detect atoms and left out
\* a survivor
C26_Witness ==
    /\ Returned
    /\ min_dist > 0
    /\ n_atoms_detect >= 2
    /\ Len(Survivors) > n_atoms_detect
    /\ Len(det_out.xyz) = n_atoms_detect

\* C27 (as claimed): on the ranked candidates of a call the pairwise-matrix
\* suppression and the sequential-loop suppression keep the same candidates
\* in the same order.
C27_SuppressionsAgree ==
    (Returned /\ min_dist > 0 /\ CallCandidates # <<>>) =>
        SuppressMatrix(CallCandidates, channels)
            = SuppressLoop(CallCandidates, channels)

-----------------------------------------------------------------------------
(* detect_atoms on the density of one atom *)

\* the call was made on the density of exactly one atom
SingleAtomCall == Returned /\ Len(struct_true.xyz) = 1
TrueXyz == struct_true.xyz[1]
TrueChannel == struct_true.c[1]
TruePeak == PeakDensity(channels[TrueChannel + 1])
\* the voxel coordinates of the grid of the call:
\* origin + resolution x index, origin = center - resolution x (extent-1)/2
VoxelCoords ==
    {<<det_in.center[1] - (det_in.resolution * (det_in.grid.dim - 1)) \div 2
           + det_in.resolution * i,
       det_in.center[2] - (det_in.resolution * (det_in.grid.dim - 1)) \div 2
           + det_in.resolution * j,
       det_in.center[3] - (det_in.resolution * (det_in.grid.dim - 1)) \div 2
           + det_in.resolution * k>> :
        i, j, k \in 0 .. det_in.grid.dim - 1}
\* the squared distance from the atom to the voxel nearest to it
NearestDist2 ==
    CHOOSE d \in {Dist2(v, TrueXyz) : v \in VoxelCoords} :
        \A v \in VoxelCoords : d <= Dist2(v, TrueXyz)
\* threshold in (0,1), in units of the peak density, and no suppression
ThresholdInUnitInterval ==
    threshold > 0 /\ threshold < TruePeak /\ min_dist = 0

C11_Conditions ==
    /\ n_atoms_detect = 1
    /\ ~ apply_conv
    /\ peak_value >= TruePeak
    /\ constrain_types => det_in.types[TrueChannel + 1] > 0
    /\ \A i \in 1 .. 3 : \E v \in VoxelCoords :
          2 * Abs(v[i] - TrueXyz[i]) <= det_in.resolution
    /\ threshold < AtomDensity(NearestDist2, channels[TrueChannel + 1])

-----------------------------------------------------------------------------
(* The kernel of convolve and get_types_estimate *)

\* C12 (as claimed): every call works with the kernel of its own (channel
\* set, resolution); the kernel of a pair is built by the first call with
\* that pair and by no later one.
C12_KernelPerChannelsAndResolution ==
    \A i \in DOMAIN kcalls :
        /\ kcalls[i].used.channels = kcalls[i].channels
        /\ kcalls[i].used.resolution = kcalls[i].resolution
        /\ kcalls[i].built <=>
              ~ \E j \in 1 .. i - 1 :
                    /\ kcalls[j].channels = kcalls[i].channels
                    /\ kcalls[j].resolution = kcalls[i].resolution

-----------------------------------------------------------------------------
(* get_min_rmsd and the RMSD metric *)

\* get_min_rmsd was called
RmsdCalled == pc \in {"called", "recorded"}
RmsdN == Len(rmsd_in.c1)
LabelCount(c, ch) == Cardinality({i \in DOMAIN c : c[i] = ch})
\* the two inputs have the same number of atoms of every channel
SameCounts ==
    \A ch \in RmsdLabels : LabelCount(rmsd_in.c1, ch) = LabelCount(rmsd_in.c2, ch)
\* the bijections between the two sets that keep the channel
LabelPreserving ==
    {p \in Assignments(RmsdN) : \A i \in 1 .. RmsdN : rmsd_in.c2[p[i]] = rmsd_in.c1[i]}
MatchCost(p) ==
    SumSeq([i \in 1 .. RmsdN |-> Dist2(rmsd_in.xyz1[i], rmsd_in.xyz2[p[i]])])
\* S: the least sum of squared distances over those bijections
MinSsd ==
    CHOOSE s \in {MatchCost(p) : p \in LabelPreserving} :
        \A p \in LabelPreserving : s <= MatchCost(p)
\* the call returns sqrt(S/N) and returns the same for every order in which
\* the points of the second set are listed
ReturnsMinRmsd ==
    /\ rmsd_out = [status |-> "returned", ssd |-> MinSsd, n_atoms |-> RmsdN]
    /\ \A q \in Assignments(RmsdN) :
          get_min_rmsd(rmsd_in.xyz1, rmsd_in.c1, Gather(rmsd_in.xyz2, q),
                       Gather(rmsd_in.c2, q), TRUE) = rmsd_out

\* C13 (as claimed): for inputs with the same per-channel counts the call
\* returns sqrt(S/N), whatever the order of the points.
C13_MinOverBijections ==
    (RmsdCalled /\ SameCounts) => ReturnsMinRmsd

\* C13 (amended): the same, for inputs with at least one atom.
C13_MinOverBijectionsNonEmpty ==
    (RmsdCalled /\ SameCounts /\ RmsdN >= 1) => ReturnsMinRmsd

\* three atoms of two channels, none at its partner's place: the two atoms
\* of one channel swap places at no cost, the third is matched at a cost
C13_Witness ==
    /\ RmsdCalled /\ SameCounts /\ RmsdN = 3
    /\ LabelCount(rmsd_in.c1, 0) = 2
    /\ \A i \in 1 .. 3 : rmsd_in.xyz1[i] # rmsd_in.xyz2[i]
    /\ rmsd_in.c1 # rmsd_in.c2
    /\ rmsd_out.status = "returned"
    /\ rmsd_out.ssd > 0
    /\ rmsd_out.ssd < MatchCost([i \in 1 .. 3 |-> i])

\* C14: when the inputs differ in the number of atoms, or in the number of
\* atoms of some channel, the call raises ValueError and returns no value,
\* and the caller records NaN as the RMSD.
C14_IncompatibleRaises ==
    (RmsdCalled /\ (Len(rmsd_in.c1) # Len(rmsd_in.c2) \/ ~ SameCounts)) =>
        /\ rmsd_out.status = "ValueError"
        /\ pc = "recorded" => m_RMSD.kind = "nan"

\* as many atoms on both sides, but not of the same channels, and the
\* metric recorded
C14_Witness ==
    /\ pc = "recorded"
    /\ Len(rmsd_in.c1) = Len(rmsd_in.c2)
    /\ Len(rmsd_in.c1) >= 2
    /\ ~ SameCounts
    /\ rmsd_in.c1[1] = rmsd_in.c2[1]
    /\ m_RMSD.kind = "nan"

\* the second input lists the atoms of the first, in the same or another
\* order
Relisted ==
    /\ Len(rmsd_in.c2) = RmsdN
    /\ \E q \in Assignments(RmsdN) :
          /\ rmsd_in.xyz2 = Gather(rmsd_in.xyz1, q)
          /\ rmsd_in.c2 = Gather(rmsd_in.c1, q)

\* C15 (as claimed): for two identical point sets of any size, in the same
\* or another order, the call returns 0.
C15_ZeroForIdentical ==
    (RmsdCalled /\ Relisted) =>
        (rmsd_out.status = "returned" /\ rmsd_out.ssd = 0)

\* C15 (amended): the same, for point sets of at least one atom.
C15_ZeroForIdenticalNonEmpty ==
    (RmsdCalled /\ Relisted /\ RmsdN >= 1) =>
        (rmsd_out.status = "returned" /\ rmsd_out.ssd = 0)

\* two atoms of one channel at different places, listed in the other order
C15_Witness ==
    /\ RmsdCalled /\ Relisted /\ RmsdN >= 2
    /\ rmsd_in.c1[1] = rmsd_in.c1[2]
    /\ rmsd_in.xyz1[1] # rmsd_in.xyz1[2]
    /\ rmsd_in.xyz2[1] = rmsd_in.xyz1[2]
    /\ rmsd_in.xyz2[2] = rmsd_in.xyz1[1]
    /\ rmsd_out.ssd = 0

(***************************************************************************)
(* The queues of generate_from_model in parallel mode *)
(***************************************************************************)

\* C16: once the producer is done or has failed, every fit worker takes one
\* sentinel from the fit queue and leaves its loop, then the output thread
\* takes its sentinel and exits, and generate_from_model returns: until it
\* has returned some thread can always take a step, and the main thread gets
\* past the join of the pool only when every worker has left its loop.
C16_ShutdownBySentinels ==
    /\ main_pc = "returned" \/ ENABLED NextParallel
    /\ main_pc \in {"put_none", "join_out", "returned"}
          => \A w \in DOMAIN wpc : wpc[w] = "exited"

\* C17: the fit queue never holds more than n_fit_workers tasks; a producer
\* that finds it full stays in its put until a worker has taken a task; and
\* the queue changes only by a put that keeps what it held and adds the
\* producer's task at the end, or by a get that hands its first task to a
\* worker: nothing is dropped or overwritten.
C17_BoundedFitQueue ==
    [][/\ Len(fit_queue) <= n_fit_workers
       /\ Len(fit_queue') <= n_fit_workers
       /\ (main_pc = "put_fit" /\ Len(fit_queue) = n_fit_workers)
             => (main_pc' = "put_fit" /\ Len(fit_queue') <= Len(fit_queue))
       /\ fit_queue' # fit_queue
             => \/ /\ main_pc = "put_fit"
                   /\ fit_queue' = Append(fit_queue, [id |-> n_produced,
                                                      grid_type |-> "lig_gen"])
                \/ /\ fit_queue # <<>>
                   /\ fit_queue' = Tail(fit_queue)
                   /\ fit_log' = Append(fit_log, Head(fit_queue).id)
                   /\ \E w \in DOMAIN wpc :
                         /\ wpc[w] = "get"
                         /\ wtask'[w] = Head(fit_queue)]_vars

\* the fit queue is full and the producer is in its put
C17_Witness ==
    /\ main_pc = "put_fit"
    /\ n_fit_workers >= 1
    /\ Len(fit_queue) = n_fit_workers

\* how many fitted results of task id were put on out_queue so far
FitResults(id) ==
    Cardinality({j \in 1..Len(out_queue) :
                    out_queue[j] = [id |-> id, grid_type |-> "lig_gen_fit"]})
    + written[[id |-> id, grid_type |-> "lig_gen_fit"]]

\* C18: every task taken from the fit queue is taken once, never gets more
\* than one fitted result, and has exactly one fitted result on out_queue
\* (or already written) by the time no worker is holding it any more,
\* verbose or not.
C18_OneFitResultPerTask ==
    \A k \in 1..Len(fit_log) :
        /\ \A j \in 1..Len(fit_log) : j # k => fit_log[j] # fit_log[k]
        /\ FitResults(fit_log[k]) <= 1
        /\ (\A w \in DOMAIN wpc : wtask[w].id # fit_log[k])
              => FitResults(fit_log[k]) = 1

\* how often grid t was put on out_queue so far
OutPuts(t) ==
    Cardinality({j \in 1..Len(out_queue) : out_queue[j] = t}) + written[t]

\* C29 (as claimed): every grid the producer has made was put on out_queue
\* exactly once, and no grid, fitted or not, is put there or written more
\* than once.
C29_EachGridOnce ==
    /\ \A i \in 1..n_produced :
          OutPuts([id |-> i, grid_type |-> "lig_gen"]) = 1
    /\ \A t \in DOMAIN written : OutPuts(t) <= 1 /\ written[t] <= 1

(***************************************************************************)
(* Progress of the beam search of AtomFitter.fit *)
(***************************************************************************)

\* C19: the passes of fit cannot go on for ever.  A pass that accepted an
\* expansion ends in a merge after which a candidate accepted in this pass
\* is in the pool, the pool is no smaller and within beam_size, none of its
\* sorted objectives is higher than before, and either the pool has grown
\* or one of its sorted objectives is strictly lower; a pass that accepted
\* nothing leaves the loop.  Pool sizes are bounded and the objectives take
\* finitely many values, so only finitely many passes accept.
C19_AcceptingPassProgress ==
    [][EndsPass =>
         IF new_best_structs # <<>>
         THEN /\ \E k \in DOMAIN new_best_structs, m \in DOMAIN best_structs' :
                    best_structs'[m] = new_best_structs[k]
              /\ Len(best_structs) <= Len(best_structs')
              /\ Len(best_structs') <= beam_size
              /\ \A m \in DOMAIN best_structs :
                    ~ ObjLess(best_structs[m].objective,
                              best_structs'[m].objective)
              /\ \/ Len(best_structs) < Len(best_structs')
                 \/ \E m \in DOMAIN best_structs :
                       ObjLess(best_structs'[m].objective,
                               best_structs[m].objective)
         ELSE /\ ~ found_new_best_struct'
              /\ best_structs' = best_structs
      ]_vars

\* a pass has ended whose accepted candidate took the place of the only
\* member of a pool of beam size 1
C19_Witness ==
    /\ pc = "while"
    /\ beam_size = 1
    /\ new_best_structs # <<>>
    /\ \E k \in DOMAIN new_best_structs : best_structs[1] = new_best_structs[k]

\* objective a is lower than objective b: by type-count mismatch first and
\* fit loss second with the type constraint, by fit loss alone without
Lower(a, b) ==
    IF constrain_types
    THEN a[1] < b[1] \/ (a[1] = b[1] /\ a[2] < b[2])
    ELSE LossOf(a) < LossOf(b)

\* C20: the merge that ends a pass with accepted expansions makes the pool
\* the beam_size lowest candidates (all, when there are fewer) of the old
\* pool and the candidates accepted in the pass: each is one of them, none
\* twice, in ascending order of objective, and no candidate left out has a
\* lower objective than one kept.  A pass that accepted nothing leaves the
\* pool as it was.
C20_MergeKeepsLowest ==
    [][EndsPass =>
         IF new_best_structs # <<>>
         THEN LET all == best_structs \o new_best_structs
                  new == best_structs'
              IN  /\ Len(new) = Min(beam_size, Len(all))
                  /\ \A m \in DOMAIN new : \E j \in DOMAIN all : new[m] = all[j]
                  /\ \A m, n \in DOMAIN new :
                        /\ m # n => new[m].struct_id # new[n].struct_id
                        /\ m < n => ~ Lower(new[n].objective, new[m].objective)
                  /\ \A j \in DOMAIN all :
                        (\A m \in DOMAIN new : new[m] # all[j])
                          => \A m \in DOMAIN new :
                                ~ Lower(all[j].objective, new[m].objective)
         ELSE best_structs' = best_structs
      ]_vars

\* a type-constrained pass has ended whose merge put an accepted candidate
\* into the pool, and the pool holds a member with the lower type-count
\* mismatch ahead of a member with the lower fit loss
C20_Witness ==
    /\ pc = "while"
    /\ constrain_types
    /\ \E k \in DOMAIN new_best_structs, m \in DOMAIN best_structs :
          best_structs[m] = new_best_structs[k]
    /\ \E m, n \in DOMAIN best_structs :
          /\ m < n
          /\ best_structs[m].objective[1] < best_structs[n].objective[1]
          /\ best_structs[m].objective[2] > best_structs[n].objective[2]

\* C21: the single-atom expansion of a candidate's frontier runs exactly
\* when multi-atom mode is off or the candidate's joint expansion was not
\* accepted.  The joint expansion is tried first exactly in multi-atom mode;
\* it clears do_single_atom exactly when it is accepted; and from then on
\* every frontier atom is tried alone and logged while do_single_atom is
\* set, and nothing is tried or logged for this candidate when it is not.
C21_SingleIffNoJointAccept ==
    [][/\ (pc = "for" /\ pc' \in {"joint", "single"})
             => /\ pc' = "joint" <=> multi_atom
                /\ do_single_atom'
       /\ pc = "joint" => /\ multi_atom
                          /\ do_single_atom' <=> ~ Accepted
       /\ pc = "single"
             => LET s == best_structs[cur]
                IN  IF do_single_atom /\ nxt <= Len(s.c_next)
                    THEN /\ Len(visited_structs') = Len(visited_structs) + 1
                         /\ Last(visited_structs').c
                              = Append(s.c, s.c_next[nxt])
                         /\ do_single_atom'
                         /\ pc' = "single"
                    ELSE /\ visited_structs' = visited_structs
                         /\ new_best_structs' = new_best_structs
                         /\ pc' = "for"
                         /\ cur' = cur + 1
      ]_vars

\* in multi-atom mode a joint expansion was accepted for a candidate with a
\* frontier of two atoms, and the candidate was left without any
\* single-atom attempt
C21_Witness ==
    /\ multi_atom
    /\ pc = "for"
    /\ cur > 1
    /\ ~ do_single_atom
    /\ nxt = 1
    /\ Len(best_structs[cur - 1].c_next) >= 2

\* C22: every candidate is expanded at most once in a call.  A pool member
\* whose id is in expanded_ids is passed over with no attempt; expansion
\* attempts are made for a member that is not in it; an id enters
\* expanded_ids only when the expansion of that member is over, and none
\* ever leaves; and when a pass ends every pool member is in expanded_ids.
C22_ExpandedOnce ==
    [][/\ (pc = "for" /\ cur <= Len(best_structs)
             /\ best_structs[cur].struct_id \in expanded_ids)
             => /\ pc' = "for"
                /\ cur' = cur + 1
                /\ visited_structs' = visited_structs
                /\ new_best_structs' = new_best_structs
       /\ pc \in {"joint", "single"}
             => best_structs[cur].struct_id \notin expanded_ids
       /\ expanded_ids' # expanded_ids
             => \/ pc = "idle" /\ expanded_ids' = {}
                \/ /\ pc = "single"
                   /\ pc' = "for"
                   /\ expanded_ids'
                        = expanded_ids \cup {best_structs[cur].struct_id}
       /\ EndsPass
             => \A m \in DOMAIN best_structs :
                   best_structs[m].struct_id \in expanded_ids
      ]_vars

\* the initial structure, expanded in the first pass, was passed over as
\* the second pool member in a later pass
C22_Witness ==
    /\ pc = "for"
    /\ Len(best_structs) = 2
    /\ cur = 3
    /\ best_structs[2].struct_id = 0
    /\ best_structs[1].struct_id \in expanded_ids

\* the structure with channel rows c has no more atoms of any channel than
\* the target counts allow
WithinTypes(c) ==
    \A k \in DOMAIN types : ColSum(c, Len(types))[k] <= types[k]

\* C23: with the type constraint on and multi-atom mode off, no structure
\* of the pool, of the candidates accepted in the current pass or of the
\* visited log has more atoms of a channel than the target count of that
\* channel.
C23_CountsWithinTargets ==
    (pc # "idle" /\ constrain_types /\ ~ multi_atom)
      => /\ \A m \in DOMAIN best_structs : WithinTypes(best_structs[m].c)
         /\ \A m \in DOMAIN new_best_structs :
               WithinTypes(new_best_structs[m].c)
         /\ \A m \in DOMAIN visited_structs :
               WithinTypes(visited_structs[m].c)

\* a structure of two atoms that uses up the target counts of both
\* channels is in the pool
C23_Witness ==
    /\ constrain_types
    /\ ~ multi_atom
    /\ \E m \in DOMAIN best_structs :
          /\ Len(best_structs[m].c) = 2
          /\ ColSum(best_structs[m].c, Len(types)) = types

\* C24 (as claimed): every accepted candidate has strictly more atoms than
\* the pool member it was expanded from, and every pool member but the
\* initial one has at least one atom.
C24_AcceptedGrows ==
    [][/\ Accepted
             => Len(Last(new_best_structs').xyz) > Len(best_structs[cur].xyz)
       /\ \A m \in DOMAIN best_structs' :
             best_structs'[m].struct_id # 0 => Len(best_structs'[m].xyz) >= 1
      ]_vars

\* C24 (amended): an accepted candidate has strictly more atoms than the
\* pool member it was expanded from, except for a joint expansion of a
\* member whose frontier is empty, which is accepted with the atoms of that
\* member and no others; such a member has atoms itself, so every pool
\* member but the initial one has at least one atom.
C24_AcceptedGrowsUnlessEmptyFrontier ==
    [][/\ Accepted
             => LET s == best_structs[cur]
                    new == Last(new_best_structs')
                IN  IF pc = "joint" /\ s.c_next = <<>>
                    THEN /\ new.c = s.c
                         /\ Len(new.xyz) = Len(s.xyz)
                         /\ Len(s.xyz) >= 1
                    ELSE /\ Len(new.xyz) > Len(s.xyz)
                         /\ Len(new.c) = Len(new.xyz)
       /\ \A m \in DOMAIN best_structs' :
             best_structs'[m].struct_id # 0 => Len(best_structs'[m].xyz) >= 1
      ]_vars

\* a joint expansion of a pool member with atoms and an empty frontier was
\* accepted
C24_Witness ==
    /\ multi_atom
    /\ pc = "single"
    /\ ~ do_single_atom
    /\ best_structs[cur].c_next = <<>>
    /\ Len(best_structs[cur].xyz) >= 1
    /\ Last(new_best_structs).c = best_structs[cur].c

(***************************************************************************)
(* fit_gd *)
(***************************************************************************)

\* C28: a call of fit_gd that has returned made exactly n_iters optimizer
\* steps; the loss and residual it returns were taken at the coordinates it
\* returns; it returns as many atoms as it was given; and the caller's
\* coordinates and channel rows are as they were passed.  While the call
\* runs the number of steps made is the number of turns completed, so no
\* turn is left early.
C28_ExactlyNItersSteps ==
    /\ gd.pc \in {"for", "return", "returned"}
          => /\ gd.steps = gd.i
             /\ gd.i <= gd.n_iters
             /\ gd.xyz_in = gd.args.xyz
             /\ gd.c_in = gd.args.c
             /\ gd.c = gd.args.c
             /\ Len(gd.xyz) = Len(gd.args.xyz)
    /\ gd.pc \in {"return", "returned"}
          => /\ gd.steps = gd.n_iters
             /\ gd.loss_at = gd.xyz
    /\ gd.pc = "returned"
          => /\ gd.out.xyz = gd.xyz
             /\ gd.out.loss_at = gd.out.xyz
             /\ Len(gd.out.xyz) = Len(gd.args.xyz)

\* a call with two atoms and two iterations has returned coordinates that
\* differ from the ones passed in
C28_Witness ==
    /\ gd.pc = "returned"
    /\ gd.n_iters = 2
    /\ gd.steps = 2
    /\ Len(gd.args.xyz) = 2
    /\ gd.out.xyz # gd.args.xyz
    /\ gd.xyz_in = gd.args.xyz

(***************************************************************************)
(* remove_tensors *)
(***************************************************************************)

\* the nodes reachable from node n through slots, over at most k references
RECURSIVE ReachableWithin(_, _, _)
ReachableWithin(heap, n, k) ==
    IF k = 0
    THEN {n}
    ELSE LET near == ReachableWithin(heap, n, k - 1)
         IN  near \cup {heap[m].slots[j].ref :
                           <<m, j>> \in {<<m, j>> \in near \X (1 .. MaxSlots) :
                                             /\ j <= Len(heap[m].slots)
                                             /\ heap[m].slots[j].tag = "ref"}}

Reachable(heap, n) == ReachableWithin(heap, n, MaxNodes)

\* some slot of a node reachable from n holds a tensor
TensorReachable(heap, n) ==
    \E m \in Reachable(heap, n) :
       \E j \in 1 .. Len(heap[m].slots) : heap[m].slots[j] = Tensor

\* C30: when remove_tensors has returned, no tensor is reachable from obj
\* through attributes of objects, dict values or list elements.
C30_NoTensorReachable ==
    rt.pc = "returned" => ~ TensorReachable(rt.heap, rt.root)

\* the call has returned and a tensor that was an element of a list is still
\* there
C30_TensorLeftInList ==
    /\ rt.pc = "returned"
    /\ \E m \in Reachable(rt.heap, rt.root) :
          /\ rt.heap[m].kind = "list"
          /\ \E j \in 1 .. Len(rt.heap[m].slots) :
                rt.heap[m].slots[j] = Tensor

\* what the call does do: once it has returned, every reachable tensor that
\* was a dict value or an attribute of an object is a numpy array, the
\* elements of lists and every reference are as they were, each reachable
\* node was visited once, and the calls in progress are on distinct nodes
\* so that their number never exceeds the number of nodes
RtConvertsDictValues ==
    /\ rt.pc \in {"run", "returned"}
          => /\ Len(rt.stack) <= MaxNodes
             /\ \A a, b \in 1 .. Len(rt.stack) :
                   rt.stack[a].node = rt.stack[b].node => a = b
             /\ rt.visited \subseteq Reachable(rt.before, rt.root)
    /\ rt.pc = "returned"
          => /\ rt.visited = Reachable(rt.before, rt.root)
             /\ \A m \in Nodes :
                   /\ rt.heap[m].kind = rt.before[m].kind
                   /\ Len(rt.heap[m].slots) = Len(rt.before[m].slots)
                   /\ \A j \in 1 .. Len(rt.heap[m].slots) :
                         rt.heap[m].slots[j] =
                            IF /\ m \in rt.visited
                               /\ HasDict(rt.before[m])
                               /\ rt.before[m].slots[j] = Tensor
                            THEN Ndarray
                            ELSE rt.before[m].slots[j]

\* every call returns, on cyclic and shared graphs too
RtTerminates == <>(rt.pc = "returned")

\* a call on a graph with a cycle through both nodes has returned
RtCycleReturned ==
    /\ rt.pc = "returned"
    /\ \A m \in Nodes : \E j \in 1 .. Len(rt.before[m].slots) :
          /\ rt.before[m].slots[j].tag = "ref"
          /\ rt.before[m].slots[j].ref # m

=============================================================================
